---------------------------- MODULE Spec2Model ----------------------------
(***************************************************************************)
(* A model of the c-parser front end: Scanner.scan, the recursive-descent  *)
(* Parser and the parse() driver loop, followed by the location sweep.     *)
(*                                                                         *)
(* The source text is a sequence of one-character strings.  Offsets are    *)
(* 0-based as in the TypeScript code, so the character at offset i is      *)
(* src[i + 1].  Every parsing method is an operator that takes the parser  *)
(* state p (the mutable fields of class Parser) and returns the state      *)
(* after the call together with what the method returns.  The grammar      *)
(* branches modelled are the ones the token kinds of Vocabulary can reach; *)
(* a branch on a token kind that no source of the model contains is left   *)
(* out and named in a comment at the place where the code has it.          *)
(***************************************************************************)
EXTENDS Integers, Sequences, FiniteSets, TLC

VARIABLES
    input,       \* how the source was put together (history)
    source,      \* the source string handed to parse()
    options,     \* [loc, gnuExtensions, revision]: the options of the call
    tokens,      \* Scanner.scan() result held by the Parser
    attributes,  \* what parseGccAttributes does at each cursor of tokens
    parser,      \* the Parser instance's mutable fields
    decls,       \* the decls array being filled by the driver loop
    ast,         \* the returned TranslationUnit (null until parse returns)
    pc,          \* position of the call: "start", "loop", "hung", "done"
    calls,       \* the number of calls of parse that returned before this one
    firstCall,   \* the first of them: its arguments, tree and parser
    idRef,       \* playground: idRef.current of useParser
    state,       \* playground: the ParserState that is displayed
    workerRef,   \* playground: 0 for null, k for the k-th Worker created
    mounted,     \* playground: the Worker of workerRef is not terminated
    toWorker,    \* playground: requests posted to the worker, oldest first
    working,     \* playground: the request that the worker is parsing
    toPage,      \* playground: responses posted to the page, oldest first
    shown,       \* playground: the id of the response in state (history)
    discarded    \* playground: the ids of the responses not taken (history)

playground ==
    <<idRef, state, workerRef, mounted, toWorker, working, toPage, shown, discarded>>

vars == <<input, source, options, tokens, attributes, parser, decls, ast, pc, calls, firstCall,
          idRef, state, workerRef, mounted, toWorker, working, toPage, shown, discarded>>

-----------------------------------------------------------------------------
(* Character classes: scanner.ts isDigit .. isWhitespace                   *)

Digits == {"0", "1", "2", "3", "4", "5", "6", "7", "8", "9"}

Lower == {"a", "b", "c", "d", "e", "f", "g", "h", "i", "j", "k", "l", "m",
          "n", "o", "p", "q", "r", "s", "t", "u", "v", "w", "x", "y", "z"}

Upper == {"A", "B", "C", "D", "E", "F", "G", "H", "I", "J", "K", "L", "M",
          "N", "O", "P", "Q", "R", "S", "T", "U", "V", "W", "X", "Y", "Z"}

isDigit(c) == c \in Digits

isAlpha(c) == c \in Lower \cup Upper

isAlphanumeric(c) == isAlpha(c) \/ isDigit(c)

isIdentStart(c) == c = "_" \/ c = "$" \/ isAlpha(c)

isIdentContinue(c) == c = "_" \/ c = "$" \/ isAlphanumeric(c)

\* space, tab, newline, CR, FF, VT; the model's sources use space and newline
isWhitespace(c) == c \in {" ", "\t", "\n", "\r", "\f"}

\* src.charCodeAt(i): out of range gives NaN, which equals no character
chAt(src, i) == IF i >= 0 /\ i < Len(src) THEN src[i + 1] ELSE "NaN"

\* src.substring(a, b) as a string value
RECURSIVE substring(_, _, _)
substring(src, a, b) ==
    IF a >= b \/ a >= Len(src) THEN ""
    ELSE src[a + 1] \o substring(src, a + 1, b)

\* the first offset j >= i with src[j] not in S (or the end of the source)
RECURSIVE scanWhile(_, _, _)
scanWhile(src, i, S) ==
    IF i < Len(src) /\ src[i + 1] \in S THEN scanWhile(src, i + 1, S) ELSE i

\* the first offset j >= i with src[j] = "\n" (or the end of the source)
RECURSIVE scanToNewline(_, _)
scanToNewline(src, i) ==
    IF i < Len(src) /\ src[i + 1] # "\n" THEN scanToNewline(src, i + 1) ELSE i

\* the body of the block-comment loop: i is the offset after the opener
RECURSIVE scanBlockComment(_, _)
scanBlockComment(src, i) ==
    IF i + 1 < Len(src)
    THEN IF chAt(src, i) = "*" /\ chAt(src, i + 1) = "/"
         THEN i + 2
         ELSE scanBlockComment(src, i + 1)
    ELSE i

isLineMarker(src, i) ==
    IF i >= Len(src) \/ chAt(src, i) # "#" THEN FALSE
    ELSE IF i > 0 /\ chAt(src, i - 1) # "\n" THEN FALSE
    ELSE LET j == scanWhile(src, i + 1, {" "})
         IN  j < Len(src) /\ isDigit(chAt(src, j))

RECURSIVE skipWhitespaceAndComments(_, _)
skipWhitespaceAndComments(src, i) ==
    LET j == scanWhile(src, i, {" ", "\t", "\n", "\r", "\f"})
    IN  IF j >= Len(src) THEN j
        ELSE IF chAt(src, j) = "#" /\ isLineMarker(src, j)
        THEN skipWhitespaceAndComments(src, scanToNewline(src, j))
        ELSE IF j + 1 < Len(src) /\ chAt(src, j) = "/" /\ chAt(src, j + 1) = "/"
        THEN skipWhitespaceAndComments(src, scanToNewline(src, j))
        ELSE IF j + 1 < Len(src) /\ chAt(src, j) = "/" /\ chAt(src, j + 1) = "*"
        THEN skipWhitespaceAndComments(src, scanBlockComment(src, j + 2))
        ELSE j

-----------------------------------------------------------------------------
(* Tokens                                                                  *)

Token(kind, start, end, value, num) ==
    [kind |-> kind, start |-> start, end |-> end, value |-> value, num |-> num]

\* keywordFromString's switch, as a table; "" stands for undefined
\* the table with the GNU spellings always enabled
KeywordTableGnu(s, gnuExtensions) ==
    CASE s \in {"typeof", "__typeof__", "__typeof"} -> "Typeof"
      [] s \in {"asm", "__asm__", "__asm"} -> "Asm"
      [] OTHER -> ""

KeywordTable(s, gnuExtensions) ==
    CASE s = "auto" -> "Auto"
      [] s = "break" -> "Break"
      [] s = "case" -> "Case"
      [] s = "char" -> "Char"
      [] s = "const" -> "Const"
      [] s = "continue" -> "Continue"
      [] s = "default" -> "Default"
      [] s = "do" -> "Do"
      [] s = "double" -> "Double"
      [] s = "else" -> "Else"
      [] s = "enum" -> "Enum"
      [] s = "extern" -> "Extern"
      [] s = "float" -> "Float"
      [] s = "for" -> "For"
      [] s = "goto" -> "Goto"
      [] s = "if" -> "If"
      [] s = "inline" -> "Inline"
      [] s = "int" -> "Int"
      [] s = "long" -> "Long"
      [] s = "register" -> "Register"
      [] s = "restrict" -> "Restrict"
      [] s = "return" -> "Return"
      [] s = "short" -> "Short"
      [] s = "signed" -> "Signed"
      [] s = "sizeof" -> "Sizeof"
      [] s = "static" -> "Static"
      [] s = "struct" -> "Struct"
      [] s = "switch" -> "Switch"
      [] s = "typedef" -> "Typedef"
      [] s = "union" -> "Union"
      [] s = "unsigned" -> "Unsigned"
      [] s = "void" -> "Void"
      [] s \in {"volatile", "__volatile__", "__volatile"} -> "Volatile"
      [] s \in {"__const", "__const__"} -> "Const"
      [] s \in {"__inline", "__inline__"} -> "Inline"
      [] s \in {"__restrict", "__restrict__"} -> "Restrict"
      [] s = "__signed__" -> "Signed"
      [] s = "while" -> "While"
      [] s = "_Alignas" -> "Alignas"
      [] s = "_Alignof" -> "Alignof"
      [] s = "_Atomic" -> "Atomic"
      [] s = "_Bool" -> "Bool"
      [] s \in {"_Complex", "__complex__", "__complex"} -> "Complex"
      [] s = "_Generic" -> "Generic"
      [] s = "_Imaginary" -> "Imaginary"
      [] s \in {"_Noreturn", "__noreturn__"} -> "Noreturn"
      [] s \in {"_Static_assert", "static_assert"} -> "StaticAssert"
      [] s \in {"_Thread_local", "__thread"} -> "ThreadLocal"
      [] s = "typeof" -> IF gnuExtensions THEN "Typeof" ELSE ""
      [] s \in {"__typeof__", "__typeof"} -> "Typeof"
      [] s = "asm" -> IF gnuExtensions THEN "Asm" ELSE ""
      [] s \in {"__asm__", "__asm"} -> "Asm"
      [] s \in {"__attribute__", "__attribute"} -> "Attribute"
      [] s = "__extension__" -> "Extension"
      [] s = "__builtin_va_list" -> "Builtin"
      [] s = "__builtin_va_arg" -> "BuiltinVaArg"
      [] s = "__builtin_types_compatible_p" -> "BuiltinTypesCompatibleP"
      [] s \in {"__int128", "__int128_t"} -> "Int128"
      [] s = "__uint128_t" -> "UInt128"
      [] s \in {"__real__", "__real"} -> "RealPart"
      [] s \in {"__imag__", "__imag"} -> "ImagPart"
      [] s = "__auto_type" -> "AutoType"
      [] s \in {"__alignof", "__alignof__"} -> "GnuAlignof"
      [] s = "__label__" -> "GnuLabel"
      [] s = "__seg_gs" -> "SegGs"
      [] s = "__seg_fs" -> "SegFs"
      [] OTHER -> ""

\* the first characters a keyword can have (stage 2 of the filter)
KeywordFirstChars ==
    {"_", "a", "b", "c", "d", "e", "f", "g", "i", "l", "r", "s", "t", "u", "v", "w"}

\* keywordFromString(s, gnuExtensions); first is s.charAt(0), len is s.length
keywordFromString(s, first, len, gnuExtensions) ==
    IF len < 2 \/ (len > 17 /\ len # 28) THEN ""
    ELSE IF first \notin KeywordFirstChars THEN ""
    ELSE KeywordTable(s, gnuExtensions)

DigitVal(c) ==
    CASE c = "0" -> 0 [] c = "1" -> 1 [] c = "2" -> 2 [] c = "3" -> 3
      [] c = "4" -> 4 [] c = "5" -> 5 [] c = "6" -> 6 [] c = "7" -> 7
      [] c = "8" -> 8 [] c = "9" -> 9

\* parseBigDec over src[a..b)
RECURSIVE parseBigDec(_, _, _)
parseBigDec(src, a, b) ==
    IF a >= b THEN 0
    ELSE parseBigDec(src, a, b - 1) * 10 + DigitVal(chAt(src, b - 1))

\* Scanner.tryPragmaPackToken on the text src[start..end): the kind is ""
\* for null.  parseInt reads the digits after set_ or push_ and is NaN when
\* there is none.
tryPragmaPackToken(src, start, end) ==
    IF end - start < 11 \/ substring(src, start, start + 11) # "__ccc_pack_"
    THEN [kind |-> "", value |-> 0]
    ELSE IF substring(src, start + 11, end) = "pop" THEN [kind |-> "PragmaPackPop", value |-> 0]
    ELSE IF substring(src, start + 11, end) = "reset"
    THEN [kind |-> "PragmaPackReset", value |-> 0]
    ELSE IF substring(src, start + 11, end) = "push_only"
    THEN [kind |-> "PragmaPackPushOnly", value |-> 0]
    ELSE IF substring(src, start + 11, start + 15) = "set_"
            /\ scanWhile(src, start + 15, Digits) > start + 15
    THEN [kind |-> "PragmaPackSet",
          value |-> parseBigDec(src, start + 15, scanWhile(src, start + 15, Digits))]
    ELSE IF substring(src, start + 11, start + 16) = "push_"
            /\ scanWhile(src, start + 16, Digits) > start + 16
    THEN [kind |-> "PragmaPackPush",
          value |-> parseBigDec(src, start + 16, scanWhile(src, start + 16, Digits))]
    ELSE [kind |-> "", value |-> 0]

\* Scanner.lexIdentifier.  The wide-literal prefix test needs a quote after
\* the identifier and the synthetic visibility names need the
\* __ccc_visibility_ prefix; neither occurs in a source of the model.
lexIdentifier(src, start, gnuExtensions) ==
    LET end  == scanWhile(src, start, Lower \cup Upper \cup Digits \cup {"_", "$"})
        text == substring(src, start, end)
        pack == tryPragmaPackToken(src, start, end)
        kw   == keywordFromString(text, chAt(src, start), end - start, gnuExtensions)
    IN  IF pack.kind # "" THEN Token(pack.kind, start, end, "", pack.value)
        ELSE IF kw # "" THEN Token(kw, start, end, "", 0)
        ELSE Token("Identifier", start, end, text, 0)

I32_MAX == 2147483647

\* An integer of the scanner is a bigint.  A value of at most I32_MAX is a
\* number of the model; a larger one is held by its limbs, least significant
\* first, each below Limb, the most significant one not zero.
Limb == 256 * 256

\* value * radix + digit
RECURSIVE bigMulAdd(_, _, _)
bigMulAdd(value, radix, carry) ==
    IF value = <<>> THEN (IF carry = 0 THEN <<>> ELSE <<carry>>)
    ELSE <<(value[1] * radix + carry) % Limb>>
            \o bigMulAdd(Tail(value), radix, (value[1] * radix + carry) \div Limb)

\* x <= y
RECURSIVE bigLe(_, _)
bigLe(x, y) ==
    IF Len(x) # Len(y) THEN Len(x) < Len(y)
    ELSE IF x = <<>> THEN TRUE
    ELSE IF x[Len(x)] # y[Len(y)] THEN x[Len(x)] < y[Len(y)]
    ELSE bigLe(SubSeq(x, 1, Len(x) - 1), SubSeq(y, 1, Len(y) - 1))

\* 0x7fffffffn, 0xffffffffn, 0x7fffffffffffffffn and Number.MAX_SAFE_INTEGER
I32_MAX_LIMBS == <<65535, 32767>>

U32_MAX == <<65535, 65535>>

I64_MAX == <<65535, 65535, 65535, 32767>>

MAX_SAFE == <<65535, 65535, 65535, 31>>

\* Number(value) of a value of at most I32_MAX
bigToNumber(value) ==
    IF value = <<>> THEN 0
    ELSE IF Len(value) = 1 THEN value[1]
    ELSE value[1] + value[2] * Limb

HexVal(c) ==
    CASE c \in Digits -> DigitVal(c)
      [] c \in {"a", "A"} -> 10 [] c \in {"b", "B"} -> 11 [] c \in {"c", "C"} -> 12
      [] c \in {"d", "D"} -> 13 [] c \in {"e", "E"} -> 14 [] c \in {"f", "F"} -> 15

HexDigits == Digits \cup {"a", "b", "c", "d", "e", "f", "A", "B", "C", "D", "E", "F"}

\* BigInt of the digits src[a..b) in a radix: parseBigHex, parseBigBin,
\* parseBigOct and the parseBigDec of a literal
RECURSIVE parseBig(_, _, _, _)
parseBig(src, a, b, radix) ==
    IF a >= b THEN <<>>
    ELSE bigMulAdd(parseBig(src, a, b - 1, radix), radix, HexVal(chAt(src, b - 1)))

\* Scanner.makeIntOrBigToken: value holds Number(value) up to MAX_SAFE and
\* bigValue holds the bigint above it.  The token of a value above I32_MAX
\* carries the limbs, and bigValue tells which of the two fields holds them.
makeIntOrBigToken(kind, start, end, value) ==
    IF bigLe(value, I32_MAX_LIMBS) THEN Token(kind, start, end, "", bigToNumber(value))
    ELSE [kind |-> kind, start |-> start, end |-> end, value |-> "", num |-> 0,
          limbs |-> value, bigValue |-> ~bigLe(value, MAX_SAFE)]

\* the kind named by the suffix alone, whatever the value and the radix
makeIntTokenBySuffix(value, isUnsigned, isLong, isLongLong, isHexOrOctal, start, end) ==
    makeIntOrBigToken(
        IF isUnsigned /\ isLongLong THEN "ULongLongLiteral"
        ELSE IF isUnsigned /\ isLong THEN "ULongLiteral"
        ELSE IF isUnsigned THEN "UIntLiteral"
        ELSE IF isLongLong THEN "LongLongLiteral"
        ELSE IF isLong THEN "LongLiteral"
        ELSE IF bigLe(value, I32_MAX_LIMBS) THEN "IntLiteral"
        ELSE "LongLiteral",
        start, end, value)

\* Scanner.makeIntToken
makeIntToken(value, isUnsigned, isLong, isLongLong, isHexOrOctal, start, end) ==
    makeIntOrBigToken(
        IF isUnsigned /\ isLongLong THEN "ULongLongLiteral"
        ELSE IF isUnsigned /\ isLong THEN "ULongLiteral"
        ELSE IF isUnsigned
        THEN (IF ~bigLe(value, U32_MAX) THEN "ULongLiteral" ELSE "UIntLiteral")
        ELSE IF isLongLong
        THEN (IF isHexOrOctal /\ ~bigLe(value, I64_MAX) THEN "ULongLongLiteral"
              ELSE "LongLongLiteral")
        ELSE IF isLong
        THEN (IF isHexOrOctal /\ ~bigLe(value, I64_MAX) THEN "ULongLiteral"
              ELSE "LongLiteral")
        ELSE IF isHexOrOctal
        THEN (IF bigLe(value, I32_MAX_LIMBS) THEN "IntLiteral"
              ELSE IF bigLe(value, U32_MAX) THEN "UIntLiteral"
              ELSE IF bigLe(value, I64_MAX) THEN "LongLiteral"
              ELSE "ULongLiteral")
        ELSE IF ~bigLe(value, I64_MAX) THEN "ULongLiteral"
        ELSE IF bigLe(value, I32_MAX_LIMBS) THEN "IntLiteral"
        ELSE "LongLiteral",
        start, end, value)

\* the loop of Scanner.parseIntSuffix from pos: u or U, l or L, and a second
\* l or L right after the first
RECURSIVE intSuffixLoop(_, _, _, _, _)
intSuffixLoop(src, pos, isUnsigned, isLong, isLongLong) ==
    IF chAt(src, pos) \in {"u", "U"}
    THEN intSuffixLoop(src, pos + 1, TRUE, isLong, isLongLong)
    ELSE IF chAt(src, pos) \in {"l", "L"}
    THEN IF chAt(src, pos + 1) \in {"l", "L"}
         THEN intSuffixLoop(src, pos + 2, isUnsigned, isLong, TRUE)
         ELSE intSuffixLoop(src, pos + 1, isUnsigned, TRUE, isLongLong)
    ELSE [isUnsigned |-> isUnsigned, isLong |-> isLong, isLongLong |-> isLongLong,
          isImaginary |-> FALSE, pos |-> pos]

\* the character after an imaginary suffix ends the literal
endsLiteral(next) == ~isAlphanumeric(next) /\ next # "_"

\* Scanner.parseIntSuffix from pos; pos of the result is the cursor after it
parseIntSuffix(src, pos) ==
    LET looped == intSuffixLoop(src, pos, FALSE, FALSE, FALSE)
    IN  IF chAt(src, pos) \in {"i", "I"} /\ endsLiteral(chAt(src, pos + 1))
        THEN [isUnsigned |-> FALSE, isLong |-> FALSE, isLongLong |-> FALSE,
              isImaginary |-> TRUE, pos |-> pos + 1]
        ELSE IF chAt(src, looped.pos) \in {"i", "I", "j", "J"}
                /\ endsLiteral(chAt(src, looped.pos + 1))
        THEN [looped EXCEPT !.isImaginary = TRUE, !.pos = looped.pos + 1]
        ELSE looped

\* Scanner.finishIntLiteral with the cursor at pos.  Number(value) of an
\* imaginary literal is kept when it is at most I32_MAX.
finishIntLiteral(src, value, isHexOrOctal, start, pos) ==
    LET sfx == parseIntSuffix(src, pos)
    IN  IF sfx.isImaginary
        THEN Token("ImaginaryLiteral", start, sfx.pos, "",
                   IF bigLe(value, I32_MAX_LIMBS) THEN bigToNumber(value) ELSE 0)
        ELSE makeIntToken(value, sfx.isUnsigned, sfx.isLong, sfx.isLongLong,
                          isHexOrOctal, start, sfx.pos)

\* a floating literal is outside the model: the token says so
floatOutsideModel(start, end) == Token("FloatOutsideModel", start, end, "", 0)

\* Scanner.lexHexNumber
lexHexNumber(src, start) ==
    LET end  == scanWhile(src, start + 2, HexDigits)
        look == scanWhile(src, end + 1, HexDigits)
    IN  IF (chAt(src, end) = "." /\ chAt(src, look) \in {"p", "P"})
           \/ chAt(src, end) \in {"p", "P"}
        THEN floatOutsideModel(start, end + 1)
        ELSE finishIntLiteral(src, parseBig(src, start + 2, end, 16), TRUE, start, end)

\* Scanner.lexBinaryNumber
lexBinaryNumber(src, start) ==
    LET end == scanWhile(src, start + 2, {"0", "1"})
    IN  finishIntLiteral(src, parseBig(src, start + 2, end, 2), TRUE, start, end)

\* Scanner.lexOctalNumber gives null, and the cursor goes back, when the
\* literal is not octal
isOctalNumber(src, start) ==
    LET end == scanWhile(src, start + 1, {"0", "1", "2", "3", "4", "5", "6", "7"})
        c   == chAt(src, end)
    IN  /\ chAt(src, start) = "0"
        /\ isDigit(chAt(src, start + 1))
        /\ \/ c \notin {".", "e", "E", "8", "9"}
           \/ c = "." /\ chAt(src, end + 1) = "." /\ chAt(src, end + 2) = "."

lexOctalNumber(src, start) ==
    LET end == scanWhile(src, start + 1, {"0", "1", "2", "3", "4", "5", "6", "7"})
    IN  finishIntLiteral(src, parseBig(src, start + 1, end, 8), TRUE, start, end)

\* Scanner.lexDecimalNumber
lexDecimalNumber(src, start) ==
    LET end == scanWhile(src, start, Digits)
    IN  IF (chAt(src, end) = "."
               /\ ~(chAt(src, end + 1) = "." /\ chAt(src, end + 2) = "."))
           \/ chAt(src, end) \in {"e", "E"}
        THEN floatOutsideModel(start, end + 1)
        ELSE finishIntLiteral(src, parseBig(src, start, end, 10), FALSE, start, end)

\* Scanner.lexNumber
lexNumber(src, start) ==
    IF chAt(src, start) = "0" /\ chAt(src, start + 1) \in {"x", "X"}
    THEN lexHexNumber(src, start)
    ELSE IF chAt(src, start) = "0" /\ chAt(src, start + 1) \in {"b", "B"}
    THEN lexBinaryNumber(src, start)
    ELSE IF isOctalNumber(src, start) THEN lexOctalNumber(src, start)
    ELSE lexDecimalNumber(src, start)

\* Scanner.lexPunctuation: the token kind and length at offset i, or length 0
\* and kind "" for a character the switch does not know (skipped).
lexPunctuation(src, i) ==
    LET c  == chAt(src, i)
        n  == chAt(src, i + 1)
        n2 == chAt(src, i + 2)
        one(k)   == [kind |-> k, len |-> 1]
        two(k)   == [kind |-> k, len |-> 2]
        three(k) == [kind |-> k, len |-> 3]
    IN  CASE c = "(" -> one("LParen")
          [] c = ")" -> one("RParen")
          [] c = "{" -> one("LBrace")
          [] c = "}" -> one("RBrace")
          [] c = "[" -> one("LBracket")
          [] c = "]" -> one("RBracket")
          [] c = ";" -> one("Semicolon")
          [] c = "," -> one("Comma")
          [] c = "~" -> one("Tilde")
          [] c = "?" -> one("Question")
          [] c = ":" -> one("Colon")
          [] c = "#" -> IF n = "#" THEN two("HashHash") ELSE one("Hash")
          [] c = "." -> IF n = "." /\ n2 = "." THEN three("Ellipsis") ELSE one("Dot")
          [] c = "+" -> IF n = "+" THEN two("PlusPlus")
                        ELSE IF n = "=" THEN two("PlusAssign") ELSE one("Plus")
          [] c = "-" -> IF n = "-" THEN two("MinusMinus")
                        ELSE IF n = "=" THEN two("MinusAssign")
                        ELSE IF n = ">" THEN two("Arrow") ELSE one("Minus")
          [] c = "*" -> IF n = "=" THEN two("StarAssign") ELSE one("Star")
          [] c = "/" -> IF n = "=" THEN two("SlashAssign") ELSE one("Slash")
          [] c = "%" -> IF n = "=" THEN two("PercentAssign") ELSE one("Percent")
          [] c = "&" -> IF n = "&" THEN two("AmpAmp")
                        ELSE IF n = "=" THEN two("AmpAssign") ELSE one("Amp")
          [] c = "|" -> IF n = "|" THEN two("PipePipe")
                        ELSE IF n = "=" THEN two("PipeAssign") ELSE one("Pipe")
          [] c = "^" -> IF n = "=" THEN two("CaretAssign") ELSE one("Caret")
          [] c = "!" -> IF n = "=" THEN two("BangEqual") ELSE one("Bang")
          [] c = "=" -> IF n = "=" THEN two("EqualEqual") ELSE one("Assign")
          [] c = "<" -> IF n = "<"
                        THEN IF n2 = "=" THEN three("LessLessAssign") ELSE two("LessLess")
                        ELSE IF n = "=" THEN two("LessEqual") ELSE one("Less")
          [] c = ">" -> IF n = ">"
                        THEN IF n2 = "=" THEN three("GreaterGreaterAssign")
                             ELSE two("GreaterGreater")
                        ELSE IF n = "=" THEN two("GreaterEqual") ELSE one("Greater")
          [] OTHER -> [kind |-> "", len |-> 0]

\* A character of a string literal: [char |-> c] for a character of the
\* source, [code |-> n] for the character with code n of an escape.

\* the octal escape after its first digit: at most two more octal digits
RECURSIVE octalEscape(_, _, _, _)
octalEscape(src, i, val, more) ==
    IF more > 0 /\ i < Len(src) /\ chAt(src, i) \in {"0", "1", "2", "3", "4", "5", "6", "7"}
    THEN octalEscape(src, i + 1, val * 8 + DigitVal(chAt(src, i)), more - 1)
    ELSE [ch |-> [code |-> val % 256], pos |-> i]

\* the largest code point, 0x10FFFF, and the replacement character, 0xFFFD
MaxCodePoint == 1114111

ReplacementChar == 65533

\* Scanner.lexUnicodeEscape with the cursor at i and val so far: at most
\* numDigits hex digits, and the loop breaks at the first character that is
\* not one.  String.fromCodePoint throws above 0x10FFFF, which val, once
\* above it, stays.
RECURSIVE lexUnicodeEscape(_, _, _, _)
lexUnicodeEscape(src, i, numDigits, val) ==
    IF numDigits > 0 /\ i < Len(src) /\ chAt(src, i) \in HexDigits
    THEN lexUnicodeEscape(src, i + 1, numDigits - 1,
             IF val > MaxCodePoint THEN val ELSE val * 16 + HexVal(chAt(src, i)))
    ELSE [ch |-> [code |-> IF val > MaxCodePoint THEN ReplacementChar ELSE val],
          pos |-> i]

\* Scanner.lexEscapeChar at offset i, after the backslash: the character and
\* the offset after the escape.  Of the letters of the switch the sources
\* have only a, u and U.
lexEscapeChar(src, i) ==
    IF i >= Len(src) THEN [ch |-> [code |-> 0], pos |-> i]
    ELSE LET c == chAt(src, i)
         IN  CASE c = "a" -> [ch |-> [code |-> 7], pos |-> i + 1]
               [] c = "u" -> lexUnicodeEscape(src, i + 1, 4, 0)
               [] c = "U" -> lexUnicodeEscape(src, i + 1, 8, 0)
               [] c \in {"0", "1", "2", "3", "4", "5", "6", "7"} ->
                     octalEscape(src, i + 1, DigitVal(c), 2)
               [] OTHER -> [ch |-> [char |-> c], pos |-> i + 1]

\* an end of string that takes a closing quote without looking for it
stringEndUnchecked(src, i) == i + 1

\* if (this.pos < this.len) this.pos++  (skip closing ")
stringEnd(src, i) == IF i < Len(src) THEN i + 1 ELSE i

\* the UTF-8 bytes of a code point above 0xff
utf8Bytes(cp) ==
    IF cp < 2048 THEN <<192 + (cp \div 64), 128 + (cp % 64)>>
    ELSE IF cp < 65536
    THEN <<224 + (cp \div 4096), 128 + ((cp \div 64) % 64), 128 + (cp % 64)>>
    ELSE <<240 + (cp \div 262144), 128 + ((cp \div 4096) % 64),
           128 + ((cp \div 64) % 64), 128 + (cp % 64)>>

\* the characters that lexString adds for the character of an escape: the
\* UTF-8 bytes, each a character, of one above 0xff
stringChars(ch) ==
    IF "code" \in DOMAIN ch /\ ch.code > 255
    THEN [k \in 1..Len(utf8Bytes(ch.code)) |-> [code |-> utf8Bytes(ch.code)[k]]]
    ELSE <<ch>>

\* the while loop of Scanner.lexString from offset i with the characters s
RECURSIVE lexStringFrom(_, _, _)
lexStringFrom(src, i, s) ==
    IF i < Len(src) /\ chAt(src, i) # "\""
    THEN IF chAt(src, i) = "\\"
         THEN IF i + 1 < Len(src)
              THEN lexStringFrom(src, lexEscapeChar(src, i + 1).pos,
                                 s \o stringChars(lexEscapeChar(src, i + 1).ch))
              ELSE lexStringFrom(src, i + 1, s)
         ELSE lexStringFrom(src, i + 1, Append(s, [char |-> chAt(src, i)]))
    ELSE [pos |-> stringEnd(src, i), s |-> s]

\* Scanner.lexString: the token of the string literal that opens at start
lexString(src, start) ==
    LET r == lexStringFrom(src, start + 1, <<>>)
    IN  Token("StringLiteral", start, r.pos, r.s, 0)

\* the code of a character of the sources of character literals
CharCode(c) ==
    CASE c = "g" -> 103 [] c = "A" -> 65 [] c = "a" -> 97 [] c = "0" -> 48
      [] c = "1" -> 49 [] c = "2" -> 50 [] c = "4" -> 52 [] c = "6" -> 54
      [] c = "C" -> 67 [] c = "F" -> 70 [] c = "f" -> 102 [] c = ";" -> 59
      [] c = "u" -> 117 [] c = "U" -> 85 [] c = " " -> 32 [] c = "\"" -> 34
      [] c = "\\" -> 92 [] c = "\n" -> 10 [] c = "/" -> 47 [] c = "*" -> 42
      [] c = "#" -> 35

codeOf(ch) == IF "code" \in DOMAIN ch THEN ch.code ELSE CharCode(ch.char)

\* (value << 8) | byte on 32-bit integers
shiftIn(value, byte) ==
    LET low == value % 16777216
    IN  (IF low >= 8388608 THEN low - 16777216 ELSE low) * 256 + byte

RECURSIVE shiftInAll(_, _)
shiftInAll(value, bytes) ==
    IF bytes = <<>> THEN value ELSE shiftInAll(shiftIn(value, Head(bytes)), Tail(bytes))

\* the while loop of Scanner.lexChar from offset i
RECURSIVE lexCharFrom(_, _, _, _)
lexCharFrom(src, i, value, charCount) ==
    IF i < Len(src) /\ chAt(src, i) # "'"
    THEN LET e  == IF chAt(src, i) = "\\" THEN lexEscapeChar(src, i + 1)
                   ELSE [ch |-> [char |-> chAt(src, i)], pos |-> i + 1]
             cp == codeOf(e.ch)
         IN  IF cp > 255
             THEN lexCharFrom(src, e.pos, shiftInAll(value, utf8Bytes(cp)),
                              charCount + Len(utf8Bytes(cp)))
             ELSE lexCharFrom(src, e.pos, shiftIn(value, cp), charCount + 1)
    ELSE [pos |-> IF i < Len(src) /\ chAt(src, i) = "'" THEN i + 1 ELSE i,
          value |-> value, charCount |-> charCount]

\* Scanner.lexChar: the token of the character literal that opens at start
lexChar(src, start) ==
    LET r == lexCharFrom(src, start + 1, 0, 0)
    IN  IF r.charCount <= 1
        THEN Token("CharLiteral", start, r.pos, <<[code |-> r.value % 256]>>, 0)
        ELSE Token("IntLiteral", start, r.pos, "", r.value)

\* Scanner.nextToken at offset i
RECURSIVE nextToken(_, _, _)
nextToken(src, i, gnuExtensions) ==
    LET start == skipWhitespaceAndComments(src, i)
        c     == chAt(src, start)
    IN  IF start >= Len(src) THEN Token("Eof", start, start, "", 0)
        ELSE IF isDigit(c) \/ (c = "." /\ start + 1 < Len(src) /\ isDigit(chAt(src, start + 1)))
        THEN lexNumber(src, start)
        ELSE IF c = "\"" THEN lexString(src, start)
        ELSE IF c = "'" THEN lexChar(src, start)
        ELSE IF isIdentStart(c) THEN lexIdentifier(src, start, gnuExtensions)
        ELSE LET pt == lexPunctuation(src, start)
             IN  IF pt.len = 0
                 THEN nextToken(src, start + 1, gnuExtensions)
                 ELSE Token(pt.kind, start, start + pt.len, "", 0)

\* Scanner.scan: tokens from offset i on, ending with the Eof token
RECURSIVE scanFrom(_, _, _)
scanFrom(src, i, gnuExtensions) ==
    LET tok == nextToken(src, i, gnuExtensions)
    IN  IF tok.kind = "Eof" THEN <<tok>>
        ELSE <<tok>> \o scanFrom(src, tok.end, gnuExtensions)

scan(src, gnuExtensions) == scanFrom(src, 0, gnuExtensions)

-----------------------------------------------------------------------------
(* Parser: fields, token access and error helpers (parser.ts)              *)

ATTR_TYPEDEF == 1
ATTR_STATIC == 2
ATTR_EXTERN == 4
ATTR_THREAD_LOCAL == 8
ATTR_INLINE == 16
ATTR_CONST == 32
ATTR_VOLATILE == 64
ATTR_NORETURN == 16384

\* one set of typedef names that every Parser shares: the names that the
\* call before left in it are the names the next call begins with
builtinTypedefsShared == IF calls = 0 THEN {} ELSE parser.typedefs

builtinTypedefs ==
    {"size_t", "ssize_t", "ptrdiff_t", "wchar_t", "wint_t",
     "int8_t", "int16_t", "int32_t", "int64_t",
     "uint8_t", "uint16_t", "uint32_t", "uint64_t",
     "intptr_t", "uintptr_t", "intmax_t", "uintmax_t",
     "int_least8_t", "int_least16_t", "int_least32_t", "int_least64_t",
     "uint_least8_t", "uint_least16_t", "uint_least32_t", "uint_least64_t",
     "int_fast8_t", "int_fast16_t", "int_fast32_t", "int_fast64_t",
     "uint_fast8_t", "uint_fast16_t", "uint_fast32_t", "uint_fast64_t",
     "FILE", "fpos_t", "sig_atomic_t", "time_t", "clock_t", "timer_t",
     "clockid_t", "off_t", "pid_t", "uid_t", "gid_t", "mode_t", "dev_t",
     "ino_t", "nlink_t", "blksize_t", "blkcnt_t", "ulong", "ushort", "uint",
     "__u8", "__u16", "__u32", "__u64", "__s8", "__s16", "__s32", "__s64",
     "va_list", "__builtin_va_list", "__gnuc_va_list", "locale_t",
     "pthread_t", "pthread_mutex_t", "pthread_cond_t", "pthread_key_t",
     "pthread_attr_t", "pthread_once_t", "pthread_mutexattr_t",
     "pthread_condattr_t", "jmp_buf", "sigjmp_buf", "DIR",
     "__Float32x4_t", "__Float64x2_t", "__SVFloat32_t", "__SVFloat64_t",
     "__SVBool_t", "__SVInt8_t", "__SVInt16_t", "__SVInt32_t", "__SVInt64_t",
     "__SVUint8_t", "__SVUint16_t", "__SVUint32_t", "__SVUint64_t",
     "__SVFloat16_t"}

\* new Parser(tokens): the fields the modelled grammar reads or writes.
\* flags is attrs.flags.  hung and log are history fields, not fields of the
\* class: hung says that a loop was entered that repeats without changing the
\* parser; log holds the scopes left, the cast attempts and the declarations
\* begun so far.
NewParser ==
    [pos |-> 0, typedefs |-> builtinTypedefs, shadowedTypedefs |-> {},
     flags |-> 0, errorCount |-> 0, hung |-> FALSE, log |-> {},
     enumConstants |-> [n \in {} |-> 0], unevaluableEnumConstants |-> {},
     pragmaPackAlign |-> <<>>]

\* the value null
null == [isNull |-> TRUE]

\* useParser before its effect has run: useState and the two useRef.  A
\* string or a number that can be null is a sequence of at most one value.
NoRequest == [id |-> 0]

playgroundInit ==
    /\ idRef = 0
    /\ state = [ast |-> null, error |-> <<>>, elapsed |-> <<>>]
    /\ workerRef = 0
    /\ mounted = FALSE
    /\ toWorker = <<>>
    /\ working = NoRequest
    /\ toPage = <<>>
    /\ shown = 0
    /\ discarded = {}

getAttrFlag(p, mask) == (p.flags \div mask) % 2 = 1

setAttrFlag(p, mask, v) ==
    IF v = getAttrFlag(p, mask) THEN p
    ELSE IF v THEN [p EXCEPT !.flags = @ + mask]
    ELSE [p EXCEPT !.flags = @ - mask]

saveAttrFlags(p) == p.flags

\* restoreAttrFlags with the register left as it is
keepAttrFlags(p, saved) == p

restoreAttrFlags(p, saved) == [p EXCEPT !.flags = saved]

dummySpan == [start |-> 0, end |-> 0]

atEof(p) == IF p.pos >= Len(tokens) THEN TRUE ELSE tokens[p.pos + 1].kind = "Eof"

peek(p) == IF p.pos < Len(tokens) THEN tokens[p.pos + 1].kind ELSE "Eof"

\* this.tokens[this.pos + k].kind guarded by this.pos + k < this.tokens.length
peekKindAt(p, k) ==
    IF p.pos + k < Len(tokens) THEN tokens[p.pos + k + 1].kind ELSE "none"

peekSpan(p) ==
    IF p.pos < Len(tokens)
    THEN [start |-> tokens[p.pos + 1].start, end |-> tokens[p.pos + 1].end]
    ELSE dummySpan

peekValue(p) == IF p.pos < Len(tokens) THEN tokens[p.pos + 1].value ELSE ""

peekNum(p) == IF p.pos < Len(tokens) THEN tokens[p.pos + 1].num ELSE 0

Min(a, b) == IF a <= b THEN a ELSE b

Max(a, b) == IF a >= b THEN a ELSE b

spanFromTokenRange(startPos, endPosExclusive) ==
    IF Len(tokens) = 0 THEN dummySpan
    ELSE IF startPos >= endPosExclusive
    THEN IF startPos >= 0 /\ startPos < Len(tokens)
         THEN [start |-> tokens[startPos + 1].start, end |-> tokens[startPos + 1].end]
         ELSE dummySpan
    ELSE LET startIdx == Max(0, Min(startPos, Len(tokens) - 1))
             endIdx   == Max(startIdx, Min(endPosExclusive - 1, Len(tokens) - 1))
         IN  [start |-> tokens[startIdx + 1].start, end |-> tokens[endIdx + 1].end]

advance(p) == IF p.pos < Len(tokens) THEN [p EXCEPT !.pos = @ + 1] ELSE p

emitError(p) == [p EXCEPT !.errorCount = @ + 1]

\* consumeIf(kind): ok is the returned boolean
consumeIf(p, kind) ==
    IF peek(p) = kind THEN [p |-> advance(p), ok |-> TRUE]
    ELSE [p |-> p, ok |-> FALSE]

\* expect / expectAfter / expectContext / expectClosing all do the same:
\* consume the token when it is the expected one, else count an error and
\* leave the cursor; both ways the span of the token looked at is returned.
expect(p, expected) ==
    IF peek(p) = expected THEN [p |-> advance(p), span |-> peekSpan(p)]
    ELSE [p |-> emitError(p), span |-> peekSpan(p)]

expectAfter(p, expected) == expect(p, expected)

expectContext(p, expected) == expectAfter(p, expected)

expectClosing(p, expected) == expect(p, expected)

isTypedefName(p, val) == val \in p.typedefs /\ val \notin p.shadowedTypedefs

TypeSpecifierStartKinds ==
    {"Void", "Char", "Short", "Int", "Long", "Float", "Double", "Signed",
     "Unsigned", "Struct", "Union", "Enum", "Typeof", "Bool", "Complex",
     "Atomic", "AutoType", "Int128", "UInt128", "Builtin", "Const",
     "Volatile", "Restrict", "Static", "Extern", "Typedef", "Register",
     "Auto", "Inline", "Noreturn", "ThreadLocal", "Attribute", "Extension",
     "Alignas", "SegGs", "SegFs"}

isTypeSpecifier(p) ==
    \/ peek(p) \in TypeSpecifierStartKinds
    \/ peek(p) = "Identifier" /\ isTypedefName(p, peekValue(p))

isTypedefLabel(p) == peek(p) = "Identifier" /\ peekKindAt(p, 1) = "Colon"

\* history: the outcome of one cast attempt at an opening parenthesis
\* history: a speculative type parse was given up; before is the state in
\* which it began, p the state after the backtrack
logBacktrack(p, who, before) ==
    [p EXCEPT !.log = @ \cup {[op |-> "backtrack", who |-> who,
                                posBefore |-> before.pos, posAfter |-> p.pos,
                                flagsBefore |-> before.flags, flagsAfter |-> p.flags,
                                errorsBefore |-> before.errorCount,
                                errorsAfter |-> p.errorCount]}]

logCast(p, at, committed, resume) ==
    [p EXCEPT !.log = @ \cup {[op |-> "cast", at |-> at, committed |-> committed,
                                resume |-> resume,
                                names |-> p.typedefs \ p.shadowedTypedefs]}]

\* history: a branch of the grammar that the model does not cover was entered
logUnmodelled(p, what) ==
    [p EXCEPT !.log = @ \cup {[op |-> "unmodelled", what |-> what]}]

\* the five kinds of synthetic pragma pack token
PragmaPackKinds ==
    {"PragmaPackSet", "PragmaPackPush", "PragmaPackPushOnly", "PragmaPackPop",
     "PragmaPackReset"}

\* handlePragmaPackToken: the token is consumed, and that is all
handlePragmaPackToken(p) ==
    IF peek(p) \in PragmaPackKinds THEN [p |-> advance(p), ok |-> TRUE]
    ELSE [p |-> p, ok |-> FALSE]

\* while (this.handlePragmaPackToken()) { this.consumeIf(TokenKind.Semicolon) }
RECURSIVE skipPragmaPack(_)
skipPragmaPack(p) ==
    IF handlePragmaPackToken(p).ok
    THEN skipPragmaPack(consumeIf(handlePragmaPackToken(p).p, "Semicolon").p)
    ELSE p

RECURSIVE skipGccExtensions(_)
skipGccExtensions(p) ==
    IF peek(p) = "Extension" THEN skipGccExtensions(advance(p)) ELSE p

NoName == ""

\* the kind of the token of ts at the cursor i (peek)
kindAt(ts, i) == IF i < Len(ts) THEN ts[i + 1].kind ELSE "Eof"

\* the while loop of parseAttributeArgs and of the single-paren variant:
\* tokens are consumed until the parenthesis opened before it is closed;
\* the cursor after the loop that began at i with depth open parentheses
RECURSIVE attributeArgsLoop(_, _, _)
attributeArgsLoop(ts, i, depth) ==
    IF depth <= 0 \/ kindAt(ts, i) = "Eof" THEN i
    ELSE IF kindAt(ts, i) = "LParen" THEN attributeArgsLoop(ts, i + 1, depth + 1)
    ELSE IF kindAt(ts, i) = "RParen" THEN attributeArgsLoop(ts, i + 1, depth - 1)
    ELSE attributeArgsLoop(ts, i + 1, depth)

parseAttributeArgs(ts, i) ==
    IF kindAt(ts, i) = "LParen" THEN attributeArgsLoop(ts, i + 1, 1) ELSE i

\* the attribute names of the modelled sources, with one pair of leading and
\* one pair of trailing underscores removed
normalizeAttributeName(name) ==
    CASE name \in {"noreturn", "__noreturn__", "__noreturn", "noreturn__"} -> "noreturn"
      [] name \in {"unused", "__unused__"} -> "unused"
      [] OTHER -> name

tokenToAttributeName(token) ==
    CASE token.kind = "Identifier" -> token.value
      [] token.kind = "Noreturn" -> "noreturn"
      [] token.kind = "Inline" -> "inline"
      [] OTHER -> NoName

\* the switch over attrName.  The effect of the attributes that follow is
\* rest: the cursor after them, whether noreturn is among them and whether
\* one of them touches more than the flag register
applyAttribute(attrName, rest) ==
    CASE attrName = "noreturn" -> [rest EXCEPT !.noreturn = TRUE]
      [] attrName \in {"unused", "inline"} -> rest
      [] OTHER -> [rest EXCEPT !.other = TRUE]

RECURSIVE gccAttributesAt(_, _)

\* the inner while loop of parseGccAttributes, inside ((...)), from the
\* cursor i on, then the consumeIf of the outer ')' and the outer loop
RECURSIVE attributeList(_, _)
attributeList(ts, i) ==
    IF kindAt(ts, i) = "Eof" THEN [pos |-> i, noreturn |-> FALSE, other |-> FALSE]
    ELSE IF kindAt(ts, i) = "RParen"
    THEN gccAttributesAt(ts, IF kindAt(ts, i + 1) = "RParen" THEN i + 2 ELSE i + 1)
    ELSE IF kindAt(ts, i) = "Comma" THEN attributeList(ts, i + 1)
    ELSE IF tokenToAttributeName(ts[i + 1]) = NoName THEN attributeList(ts, i + 1)
    ELSE applyAttribute(normalizeAttributeName(tokenToAttributeName(ts[i + 1])),
                        attributeList(ts, parseAttributeArgs(ts, i + 1)))

\* the outer while loop of parseGccAttributes from the cursor i on
gccAttributesAt(ts, i) ==
    IF kindAt(ts, i) # "Attribute" THEN [pos |-> i, noreturn |-> FALSE, other |-> FALSE]
    ELSE IF kindAt(ts, i + 1) # "LParen" THEN gccAttributesAt(ts, i + 1)
    ELSE IF kindAt(ts, i + 2) # "LParen"
    THEN gccAttributesAt(ts, attributeArgsLoop(ts, i + 2, 1))
    ELSE attributeList(ts, i + 3)

\* what parseGccAttributes does at each cursor of ts; it reads nothing but
\* the tokens, so the table is made when the parser is given them
attributeTable(ts) == [i \in 0..Len(ts) |-> gccAttributesAt(ts, i)]

\* parseGccAttributes returns at once unless an __attribute__ token is next
parseGccAttributes(p) ==
    IF peek(p) # "Attribute" THEN p
    ELSE IF attributes[p.pos].other
    THEN logUnmodelled([p EXCEPT !.pos = attributes[p.pos].pos], "attribute")
    ELSE setAttrFlag([p EXCEPT !.pos = attributes[p.pos].pos], ATTR_NORETURN,
                     attributes[p.pos].noreturn \/ getAttrFlag(p, ATTR_NORETURN))

\* an identifier under the cursor is consumed as the name
optIdentifier(p) ==
    IF peek(p) = "Identifier" THEN [p |-> advance(p), name |-> peekValue(p)]
    ELSE [p |-> p, name |-> NoName]

-----------------------------------------------------------------------------
(* Type specifiers (types.ts)                                              *)

withTypeSpan(node, span) == node @@ [start |-> span.start, end |-> span.end]

reSpanType(node, span) == [node EXCEPT !.start = span.start, !.end = span.end]

wrapPointerType(base, addressSpace, span) ==
    withTypeSpan([type |-> "PointerType", base |-> base,
                  addressSpace |-> addressSpace], span)

wrapFunctionPointerType(returnType, params, variadic) ==
    withTypeSpan([type |-> "FunctionPointerType", returnType |-> returnType,
                  params |-> params, variadic |-> variadic],
                 [start |-> returnType.start, end |-> returnType.end])

\* The methods of the parser call one another in cycles.  Each call of one
\* of them goes through method, which selects the body by its name; the
\* body of parseExpr is parseExprBody, and so on.
RECURSIVE method(_, _)

parseTypeSpecifier(p0) == method("parseTypeSpecifier", <<p0>>)

parseTypeofSpecifier(p) == method("parseTypeofSpecifier", <<p>>)

parseAbstractDeclaratorSuffix(p0, resultType) ==
    method("parseAbstractDeclaratorSuffix", <<p0, resultType>>)

parseDeclaratorWithAttrs(p0) == method("parseDeclaratorWithAttrs", <<p0>>)

parseParamList(p0) == method("parseParamList", <<p0>>)

parseAssignmentExpr(p0) == method("parseAssignmentExpr", <<p0>>)

parseExpr(p0) == method("parseExpr", <<p0>>)

parseCastExpr(p0) == method("parseCastExpr", <<p0>>)

parseInitializer(p) == method("parseInitializer", <<p>>)

parseLocalDeclaration(p0) == method("parseLocalDeclaration", <<p0>>)

parseStmt(p0) == method("parseStmt", <<p0>>)

parseCompoundStmt(p0) == method("parseCompoundStmt", <<p0>>)

driverIteration(p, ds) == method("driverIteration", <<p, ds>>)

defaultFlags ==
    [hasVoid |-> FALSE, hasInt |-> FALSE, hasEnum |-> FALSE, hasStruct |-> FALSE,
     hasUnion |-> FALSE, hasTypeof |-> FALSE, typedefName |-> "",
     anyBaseSpecifier |-> FALSE, anyStorageClass |-> FALSE, early |-> ""]

\* the main loop of parseTypeSpecifier; fl holds flags, anyBaseSpecifier and
\* anyStorageClass, and early names the type of a return from inside the loop.
\* case TokenKind.Identifier with the test of anyBaseSpecifier left out
typedefNameSpecifierAlways(p, fl) ==
    IF isTypedefName(p, peekValue(p))
    THEN [p |-> advance(p),
          fl |-> [fl EXCEPT !.typedefName = peekValue(p), !.anyBaseSpecifier = TRUE]]
    ELSE [p |-> p, fl |-> fl]

\* case TokenKind.Identifier of the loop of parseTypeSpecifier: a typedef
\* name is the base type only when no base specifier came before it; either
\* way the loop ends
typedefNameSpecifier(p, fl) ==
    IF isTypedefName(p, peekValue(p)) /\ ~fl.anyBaseSpecifier
    THEN [p |-> advance(p),
          fl |-> [fl EXCEPT !.typedefName = peekValue(p), !.anyBaseSpecifier = TRUE]]
    ELSE [p |-> p, fl |-> fl]

RECURSIVE typeSpecifierLoop(_, _)
typeSpecifierLoop(p, fl) ==
    LET k == peek(p)
    IN  CASE k = "Const" -> typeSpecifierLoop(setAttrFlag(advance(p), ATTR_CONST, TRUE), fl)
          [] k = "Volatile" -> typeSpecifierLoop(setAttrFlag(advance(p), ATTR_VOLATILE, TRUE), fl)
          [] k = "Noreturn" -> typeSpecifierLoop(setAttrFlag(advance(p), ATTR_NORETURN, TRUE), fl)
          [] k = "Inline" -> typeSpecifierLoop(setAttrFlag(advance(p), ATTR_INLINE, TRUE), fl)
          [] k = "Static" ->
                typeSpecifierLoop(setAttrFlag(advance(p), ATTR_STATIC, TRUE),
                                  [fl EXCEPT !.anyStorageClass = TRUE])
          [] k = "Extern" ->
                typeSpecifierLoop(setAttrFlag(advance(p), ATTR_EXTERN, TRUE),
                                  [fl EXCEPT !.anyStorageClass = TRUE])
          [] k = "Typedef" ->
                typeSpecifierLoop(setAttrFlag(advance(p), ATTR_TYPEDEF, TRUE),
                                  [fl EXCEPT !.anyStorageClass = TRUE])
          [] k = "Void" ->
                [p |-> advance(p),
                 fl |-> [fl EXCEPT !.hasVoid = TRUE, !.anyBaseSpecifier = TRUE]]
          [] k = "Int" ->
                typeSpecifierLoop(advance(p),
                                  [fl EXCEPT !.hasInt = TRUE, !.anyBaseSpecifier = TRUE])
          [] k = "Enum" ->
                [p |-> advance(p),
                 fl |-> [fl EXCEPT !.hasEnum = TRUE, !.anyBaseSpecifier = TRUE]]
          [] k = "Struct" ->
                [p |-> advance(p),
                 fl |-> [fl EXCEPT !.hasStruct = TRUE, !.anyBaseSpecifier = TRUE]]
          [] k = "Union" ->
                [p |-> advance(p),
                 fl |-> [fl EXCEPT !.hasUnion = TRUE, !.anyBaseSpecifier = TRUE]]
          [] k = "Typeof" ->
                [p |-> advance(p),
                 fl |-> [fl EXCEPT !.hasTypeof = TRUE, !.anyBaseSpecifier = TRUE]]
          [] k = "Restrict" -> typeSpecifierLoop(advance(p), fl)
          [] k = "Extension" -> typeSpecifierLoop(advance(p), fl)
          [] k = "AutoType" -> [p |-> advance(p), fl |-> [fl EXCEPT !.early = "AutoTypeType"]]
          [] k = "Int128" -> [p |-> advance(p), fl |-> [fl EXCEPT !.early = "Int128Type"]]
          [] k = "UInt128" ->
                [p |-> advance(p), fl |-> [fl EXCEPT !.early = "UnsignedInt128Type"]]
          [] k = "Attribute" -> [p |-> parseGccAttributes(p), fl |-> fl]
          [] k = "Identifier" -> typedefNameSpecifier(p, fl)
          [] k \in {"Char", "Short", "Long", "Float", "Double", "Signed", "Unsigned",
                    "Bool", "Complex", "Atomic",
                    "Builtin", "Register", "Auto", "ThreadLocal", "Alignas",
                    "SegGs", "SegFs"} ->
                [p |-> logUnmodelled(p, "type specifier"), fl |-> fl]
          [] OTHER -> [p |-> p, fl |-> fl]

\* the loop of collectTrailingSpecifiers for an integer base (hasInt)
RECURSIVE trailingIntLoop(_)
trailingIntLoop(p) ==
    LET k == peek(p)
    IN  CASE k \in {"Int", "Const", "Volatile"} -> trailingIntLoop(advance(p))
          [] k = "Static" -> trailingIntLoop(setAttrFlag(advance(p), ATTR_STATIC, TRUE))
          [] k = "Extern" -> trailingIntLoop(setAttrFlag(advance(p), ATTR_EXTERN, TRUE))
          [] k = "Noreturn" -> trailingIntLoop(setAttrFlag(advance(p), ATTR_NORETURN, TRUE))
          [] k = "Inline" -> trailingIntLoop(setAttrFlag(advance(p), ATTR_INLINE, TRUE))
          [] OTHER -> p

collectTrailingSpecifiers(p, fl) == IF fl.hasInt THEN trailingIntLoop(p) ELSE p

resolveTypeFlags(fl, span) ==
    IF fl.hasVoid THEN withTypeSpan([type |-> "VoidType"], span)
    ELSE IF fl.typedefName # ""
    THEN withTypeSpan([type |-> "TypedefNameType", name |-> fl.typedefName], span)
    ELSE withTypeSpan([type |-> "IntType"], span)

\* consumeTrailingQualifiers: the cursor after the loop (the base type is
\* replaced only by a _Complex token, which is outside the vocabulary)
RECURSIVE consumeTrailingQualifiers(_)
consumeTrailingQualifiers(p) ==
    LET k == peek(p)
    IN  CASE k \in {"Const", "Volatile"} -> consumeTrailingQualifiers(advance(p))
          [] k = "Static" -> consumeTrailingQualifiers(setAttrFlag(advance(p), ATTR_STATIC, TRUE))
          [] k = "Extern" -> consumeTrailingQualifiers(setAttrFlag(advance(p), ATTR_EXTERN, TRUE))
          [] k = "Noreturn" -> consumeTrailingQualifiers(setAttrFlag(advance(p), ATTR_NORETURN, TRUE))
          [] k = "Inline" -> consumeTrailingQualifiers(setAttrFlag(advance(p), ATTR_INLINE, TRUE))
          [] OTHER -> p

\* A number or null: the sequence of the number, or the empty sequence.
NoValue == <<>>

\* the static Parser.evalConstIntExprWithEnums of parser.ts: return null
evalConstIntExprWithEnums(expr, enumConsts, tagAligns) == NoValue

\* this.enumConstants.set(name, v)
mapSet(m, name, v) == [n \in DOMAIN m \cup {name} |-> IF n = name THEN v ELSE m[n]]

\* the loop of registerEnumConstants from variant i on
RECURSIVE registerEnumFrom(_, _, _, _)
registerEnumFrom(p, variants, i, nextValue) ==
    IF i > Len(variants) THEN p
    ELSE LET variant == variants[i]
             evaluated == IF "value" \in DOMAIN variant
                          THEN evalConstIntExprWithEnums(variant.value, p.enumConstants, null)
                          ELSE nextValue
         IN  IF evaluated # NoValue
             THEN registerEnumFrom(
                      [p EXCEPT !.enumConstants = mapSet(@, variant.name, evaluated[1])],
                      variants, i + 1, <<evaluated[1] + 1>>)
             ELSE registerEnumFrom(
                      [p EXCEPT !.unevaluableEnumConstants = @ \cup {variant.name}],
                      variants, i + 1, NoValue)

registerEnumConstants(p, variants) == registerEnumFrom(p, variants, 1, <<0>>)

RECURSIVE enumVariantsLoop(_, _)

\* variants.push({ name, value }); this.consumeIf(TokenKind.Comma)
enumVariantNext(p, variants) == enumVariantsLoop(consumeIf(p, "Comma").p, variants)

\* after the value v of the variant name
enumVariantAfterValue(v, name, variants) ==
    IF v.p.hung THEN [p |-> v.p, variants |-> variants]
    ELSE enumVariantNext(v.p, Append(variants, [name |-> name, value |-> v.n]))

\* the while loop of parseEnumVariants; a variant without a value has no
\* value field
enumVariantsLoop(p, variants) ==
    IF peek(p) \in {"RBrace", "Eof"} THEN [p |-> p, variants |-> variants]
    ELSE IF peek(p) = "Identifier"
    THEN IF peek(advance(p)) = "Assign"
         THEN enumVariantAfterValue(parseAssignmentExpr(advance(advance(p))),
                                    peekValue(p), variants)
         ELSE enumVariantNext(advance(p), Append(variants, [name |-> peekValue(p)]))
    ELSE enumVariantsLoop(advance(p), variants)

\* this.expectClosing(TokenKind.RBrace, open) after the loop, which left r
enumVariantsClose(r) ==
    IF r.p.hung THEN r
    ELSE [p |-> expectClosing(r.p, "RBrace").p, variants |-> r.variants]

parseEnumVariants(p) ==
    enumVariantsClose(enumVariantsLoop(expectContext(p, "LBrace").p, <<>>))

\* the EnumType of parseEnumSpecifier; a null name is left out, and null
\* variants are (hasBody tells whether there are any)
EnumType(name, hasBody, variants, startPos, p) ==
    LET named == IF name = NoName THEN [type |-> "EnumType", isPacked |-> FALSE]
                 ELSE [type |-> "EnumType", isPacked |-> FALSE, name |-> name]
    IN  withTypeSpan(IF hasBody THEN named @@ [variants |-> variants] ELSE named,
                     spanFromTokenRange(startPos, p.pos))

\* parseEnumSpecifier after the variants r of a body
enumAfterVariants(r, name, startPos) ==
    IF r.p.hung THEN [p |-> r.p, n |-> null]
    ELSE [p |-> parseGccAttributes(registerEnumConstants(r.p, r.variants)),
          n |-> EnumType(name, TRUE, r.variants, startPos,
                         parseGccAttributes(registerEnumConstants(r.p, r.variants)))]

\* parseEnumSpecifier after the optional name
enumAfterName(p, name, startPos) ==
    IF peek(parseGccAttributes(p)) = "LBrace"
    THEN enumAfterVariants(parseEnumVariants(parseGccAttributes(p)), name, startPos)
    ELSE [p |-> parseGccAttributes(parseGccAttributes(p)),
          n |-> EnumType(name, FALSE, <<>>, startPos,
                         parseGccAttributes(parseGccAttributes(p)))]

\* parseEnumSpecifier, called with the cursor after the enum token
parseEnumSpecifier(p) ==
    enumAfterName(optIdentifier(parseGccAttributes(p)).p,
                  optIdentifier(parseGccAttributes(p)).name, Max(0, p.pos - 1))

\* a field of a struct or union body with the name under the cursor of p;
\* the declarator is the name alone, so foldSimpleDerived has nothing to fold
StructField(typeSpec, p) ==
    [type |-> "StructFieldDeclaration", typeSpec |-> typeSpec, name |-> peekValue(p),
     nameNode |-> [type |-> "Identifier", name |-> peekValue(p),
                   start |-> peekSpan(p).start, end |-> peekSpan(p).end],
     derived |-> <<>>, alignment |-> <<>>, isPacked |-> FALSE,
     start |-> peekSpan(p).start, end |-> peekSpan(p).end]

\* the anonymous field of a type specifier followed by a semicolon
AnonymousField(typeSpec) ==
    [type |-> "StructFieldDeclaration", typeSpec |-> typeSpec, name |-> NoName,
     derived |-> <<>>, alignment |-> <<>>, isPacked |-> FALSE,
     start |-> typeSpec.start, end |-> typeSpec.end]

\* parseStructFieldDeclarators for declarators that are a name alone; bit
\* fields, pointers, arrays and qualifiers before the name are left out
RECURSIVE parseStructFieldDeclarators(_, _, _)
parseStructFieldDeclarators(p, typeSpec, fields) ==
    IF peek(p) = "Identifier" /\ peekKindAt(p, 1) = "Comma"
    THEN parseStructFieldDeclarators(advance(advance(p)), typeSpec,
                                     Append(fields, StructField(typeSpec, p)))
    ELSE IF peek(p) = "Identifier" /\ peekKindAt(p, 1) = "Semicolon"
    THEN [p |-> advance(p), fields |-> Append(fields, StructField(typeSpec, p))]
    ELSE [p |-> logUnmodelled(p, "struct field declarator"), fields |-> fields]

RECURSIVE structFieldsLoop(_, _)

\* skipGccExtensions and expectAfter(Semicolon) after the declarators r
structFieldEnd(r) ==
    structFieldsLoop(expectAfter(skipGccExtensions(r.p), "Semicolon").p, r.fields)

\* one iteration of the loop of parseStructFields after the type specifier t
structFieldAfterType(t, fields) ==
    IF t.p.hung THEN [p |-> t.p, fields |-> fields]
    ELSE IF t.n = null THEN structFieldsLoop(advance(t.p), fields)
    ELSE IF peek(t.p) = "Semicolon"
    THEN structFieldEnd([p |-> t.p, fields |-> Append(fields, AnonymousField(t.n))])
    ELSE structFieldEnd(parseStructFieldDeclarators(t.p, t.n, fields))

\* one iteration after skipGccExtensions, which left q; a _Static_assert
\* among the fields is left out
structFieldFrom(q, fields) ==
    IF peek(q) = "Semicolon" THEN structFieldsLoop(advance(q), fields)
    ELSE IF peek(q) = "StaticAssert"
    THEN [p |-> logUnmodelled(q, "struct field"), fields |-> fields]
    ELSE structFieldAfterType(parseTypeSpecifier(q), fields)

\* the while loop of parseStructFields
structFieldsLoop(p, fields) ==
    IF peek(p) \in {"RBrace", "Eof"} THEN [p |-> p, fields |-> fields]
    ELSE structFieldFrom(skipGccExtensions(p), fields)

\* this.expectClosing(TokenKind.RBrace, open) after the loop, which left r
structFieldsClose(r) ==
    IF r.p.hung THEN r ELSE [p |-> expectClosing(r.p, "RBrace").p, fields |-> r.fields]

parseStructFields(p) == structFieldsClose(structFieldsLoop(expectContext(p, "LBrace").p, <<>>))

\* the StructType or UnionType node; fields is left out when the code has
\* null.  The attributes packed and aligned are outside the model, so
\* isPacked is false and structAligned null.
StructType(isStruct, name, hasBody, fields, startPos, q) ==
    withTypeSpan(
        [type |-> IF isStruct THEN "StructType" ELSE "UnionType", name |-> name,
         isPacked |-> FALSE, maxFieldAlign |-> q.pragmaPackAlign, structAligned |-> <<>>]
        @@ (IF hasBody THEN [fields |-> fields] ELSE <<>>),
        spanFromTokenRange(startPos, q.pos))

\* parseStructOrUnion after the attributes that follow the body or the name,
\* which left q
structEnd(q, isStruct, name, hasBody, fields, startPos) ==
    [p |-> q, n |-> StructType(isStruct, name, hasBody, fields, startPos, q)]

\* parseStructOrUnion after the fields r: this.setAttrFlag(ATTR_CONST, savedConst)
structAfterFields(r, savedConst, isStruct, name, startPos) ==
    IF r.p.hung THEN [p |-> r.p, n |-> null]
    ELSE structEnd(parseGccAttributes(setAttrFlag(r.p, ATTR_CONST, savedConst)),
                   isStruct, name, TRUE, r.fields, startPos)

\* parseStructOrUnion after the attributes that follow the name, which left q
structAfterAttrs(q, isStruct, name, startPos) ==
    IF peek(q) = "LBrace"
    THEN structAfterFields(parseStructFields(q), getAttrFlag(q, ATTR_CONST), isStruct,
                           name, startPos)
    ELSE structEnd(parseGccAttributes(q), isStruct, name, FALSE, <<>>, startPos)

\* parseStructOrUnion after the optional name nm
structAfterName(nm, isStruct, startPos) ==
    structAfterAttrs(parseGccAttributes(nm.p), isStruct, nm.name, startPos)

\* parseStructOrUnion, called with the cursor after the struct or union
\* token.  The map structTagAlignments that it fills is read by alignof
\* only, which is outside the model.
parseStructOrUnion(p, isStruct) ==
    structAfterName(optIdentifier(parseGccAttributes(p)), isStruct, Max(0, p.pos - 1))

\* the end of parseTypeSpecifier for a base type: base is the resolved type,
\* p2 the state after consumeTrailingQualifiers
typeSpecifierResult(startPos, base, p2) ==
    [p |-> p2, n |-> reSpanType(base, spanFromTokenRange(startPos, p2.pos))]

\* resolveTypeFlags for hasEnum, whose parseEnumSpecifier returned e, and the
\* end of parseTypeSpecifier after it
typeSpecifierAfterEnum(startPos, e) ==
    IF e.p.hung THEN e
    ELSE typeSpecifierResult(startPos, e.n, consumeTrailingQualifiers(e.p))

\* parseTypeSpecifier from "if (!anyBaseSpecifier)" on; p1 is the state after
\* collectTrailingSpecifiers
typeSpecifierResolve(startPos, fl, p1) ==
    IF ~fl.anyBaseSpecifier
    THEN IF fl.anyStorageClass
         THEN [p |-> p1,
               n |-> withTypeSpan([type |-> "IntType"],
                                  spanFromTokenRange(startPos, p1.pos))]
         ELSE [p |-> p1, n |-> null]
    ELSE IF fl.hasStruct \/ fl.hasUnion
    THEN typeSpecifierAfterEnum(startPos, parseStructOrUnion(p1, fl.hasStruct))
    ELSE IF fl.hasEnum
    THEN typeSpecifierAfterEnum(startPos, parseEnumSpecifier(p1))
    ELSE IF fl.hasTypeof
    THEN typeSpecifierAfterEnum(startPos, parseTypeofSpecifier(p1))
    ELSE typeSpecifierResult(startPos,
             resolveTypeFlags(fl, spanFromTokenRange(startPos, p1.pos)),
             consumeTrailingQualifiers(p1))

\* parseTypeSpecifier after its main loop, whose result is lp
typeSpecifierAfterLoop(startPos, lp) ==
    IF lp.fl.early # ""
    THEN [p |-> lp.p,
          n |-> withTypeSpan([type |-> lp.fl.early],
                             spanFromTokenRange(startPos, lp.p.pos))]
    ELSE typeSpecifierResolve(startPos, lp.fl, collectTrailingSpecifiers(lp.p, lp.fl))

\* parseTypeSpecifier after skipGccExtensions: const startPos = this.pos
typeSpecifierFrom(pe) == typeSpecifierAfterLoop(pe.pos, typeSpecifierLoop(pe, defaultFlags))

parseTypeSpecifierBody(p0) == typeSpecifierFrom(skipGccExtensions(p0))

-----------------------------------------------------------------------------
(* Declarators and parameter lists (declarators.ts)                        *)
(*                                                                         *)
(* A name that the code holds as null is the empty string here; an object  *)
(* field that the code sets to null is left out of the record.  Array      *)
(* declarators need a bracket token, which is outside the vocabulary.      *)

RECURSIVE skipCvQualifiers(_)
skipCvQualifiers(p) ==
    IF peek(p) \in {"Const", "Volatile", "Restrict", "Extension"}
    THEN skipCvQualifiers(advance(p))
    ELSE IF peek(p) = "Attribute" THEN skipCvQualifiers(parseGccAttributes(p))
    ELSE p

\* while (consumeIf(Star)) { n++; skipCvQualifiers() }: the state after the
\* loop and the number of stars consumed
RECURSIVE consumeStars(_, _)
consumeStars(p, n) ==
    IF peek(p) = "Star" THEN consumeStars(skipCvQualifiers(advance(p)), n + 1)
    ELSE [p |-> p, n |-> n]

\* n copies of { kind: 'Pointer' }
Pointers(n) == [i \in 1..n |-> [kind |-> "Pointer"]]

isParenDeclarator(p) ==
    IF p.pos + 1 >= Len(tokens) THEN FALSE
    ELSE LET next == tokens[p.pos + 2]
         IN  CASE next.kind \in {"Star", "Caret", "LParen", "LBracket",
                                 "Attribute", "Extension"} -> TRUE
               [] next.kind = "Identifier" ->
                     next.value \notin p.typedefs \/ next.value \in p.shadowedTypedefs
               [] OTHER -> FALSE

kindsOf(derived) == {derived[i].kind : i \in DOMAIN derived}

countKind(derived, kind) == Cardinality({i \in DOMAIN derived : derived[i].kind = kind})

\* a function pointer entry that loses the parameters
asFunctionPointerNoParams(d) ==
    [kind |-> "FunctionPointer", params |-> <<>>, variadic |-> d.variadic]

asFunctionPointer(d) ==
    [kind |-> "FunctionPointer", params |-> d.params, variadic |-> d.variadic]

\* the loop of the nested-function-pointer case over outerSuffixes
RECURSIVE nestedFnPtrSuffixes(_)
nestedFnPtrSuffixes(outerSuffixes) ==
    IF outerSuffixes = <<>> THEN <<>>
    ELSE (IF Head(outerSuffixes).kind = "Function"
          THEN <<[kind |-> "Pointer"], asFunctionPointer(Head(outerSuffixes))>>
          ELSE <<Head(outerSuffixes)>>)
         \o nestedFnPtrSuffixes(Tail(outerSuffixes))

combineDeclaratorParts(outerPointers, innerDerived, outerSuffixes) ==
    LET innerOnlyPtrAndArray    == kindsOf(innerDerived) \subseteq {"Pointer", "Array"}
        innerHasPointer         == "Pointer" \in kindsOf(innerDerived)
        outerStartsWithFunction == Len(outerSuffixes) > 0 /\ outerSuffixes[1].kind = "Function"
        innerPtrCount           == countKind(innerDerived, "Pointer")
        outerOnlyArrays         == kindsOf(outerSuffixes) \subseteq {"Array"}
        innerStartsWithPointer  == Len(innerDerived) > 0 /\ innerDerived[1].kind = "Pointer"
        innerHasFptr            == "FunctionPointer" \in kindsOf(innerDerived)
    IN  IF Len(innerDerived) = 0 /\ Len(outerSuffixes) = 0 THEN outerPointers
        ELSE IF Len(innerDerived) = 0 THEN outerPointers \o outerSuffixes
        ELSE IF innerOnlyPtrAndArray /\ innerHasPointer /\ outerStartsWithFunction
                /\ Len(outerSuffixes) = 1
        THEN outerPointers \o <<[kind |-> "Pointer"], asFunctionPointer(outerSuffixes[1])>>
                 \o Pointers(innerPtrCount - 1)
        ELSE IF innerOnlyPtrAndArray /\ innerHasPointer /\ outerOnlyArrays
        THEN \* pointer-to-array case with no array at all: the inner pointers
             outerPointers \o outerSuffixes \o innerDerived
        ELSE IF innerStartsWithPointer /\ innerHasFptr /\ outerStartsWithFunction
        THEN outerPointers \o innerDerived \o nestedFnPtrSuffixes(outerSuffixes)
        ELSE outerPointers \o outerSuffixes \o innerDerived

\* this.consumeIf(TokenKind.RParen) after the inner name r
extractParenNameClose(r) == [p |-> consumeIf(r.p, "RParen").p, name |-> r.name]

RECURSIVE extractParenName(_)
extractParenName(p0) ==
    IF peek(p0) # "LParen" THEN optIdentifier(p0)
    ELSE LET p1 == advance(p0)
             p2 == IF peek(p1) = "Star" THEN skipCvQualifiers(advance(p1)) ELSE p1
         IN  extractParenNameClose(IF peek(p2) = "LParen" THEN extractParenName(p2)
                                   ELSE optIdentifier(p2))

\* the loop of skipBalancedParens after the opening parenthesis
RECURSIVE skipBalancedLoop(_, _)
skipBalancedLoop(p, depth) ==
    IF depth > 0 /\ ~atEof(p)
    THEN LET d == IF peek(p) = "LParen" THEN depth + 1
                  ELSE IF peek(p) = "RParen" THEN depth - 1 ELSE depth
         IN  skipBalancedLoop(IF d > 0 THEN advance(p) ELSE p, d)
    ELSE p

skipBalancedParens(p) ==
    IF peek(p) # "LParen" THEN p
    ELSE consumeIf(skipBalancedLoop(advance(p), 1), "RParen").p

RECURSIVE declaratorSuffixes(_, _)
RECURSIVE paramLoop(_, _)
RECURSIVE parseKrIdentifierList(_, _)
RECURSIVE parseParamDeclaratorFull(_)
RECURSIVE parseParenParamDeclarator(_, _)

\* st.isFuncPtr = true; st.fptrParams = r.params, after the parameter list r
withFptr(st, r) == [st EXCEPT !.isFuncPtr = TRUE, !.fptrParams = r.params]

\* the declarator [p, name, st] after the parameter list r
withParams(r, name, st) == [p |-> r.p, name |-> name, st |-> withFptr(st, r)]

\* if (this.peek() === LParen) { parseParamList(); isFuncPtr = true; ... }
optParams(p, name, st) ==
    IF peek(p) = "LParen" THEN withParams(parseParamList(p), name, st)
    ELSE [p |-> p, name |-> name, st |-> st]

\* the '*' branch of parseParenParamDeclarator after the closing parenthesis
\* of the group: nStars stars were consumed inside the group
parenParamStarClose(p2, name, st1, nStars) ==
    IF peek(p2) = "LParen"
    THEN [withParams(parseParamList(p2), name, st1) EXCEPT
             !.st.fptrInnerPtrDepth = nStars]
    ELSE [p |-> p2, name |-> name, st |-> [st1 EXCEPT !.pointerDepth = @ + 1]]

\* the '*' branch after the name nm
parenParamStarName(nm, st, nStars) ==
    parenParamStarClose(expect(nm.p, "RParen").p, nm.name,
                        [st EXCEPT !.pointerDepth = @ + Max(0, nStars - 1)], nStars)

\* the '*' branch after the stars
parenParamStar(stars, st) ==
    parenParamStarName(IF peek(stars.p) = "LParen" THEN extractParenName(stars.p)
                       ELSE optIdentifier(stars.p),
                       st, stars.n)

\* the identifier branch after the optional inner parameter list
parenParamIdentClose(in) ==
    IF ~in.st.isFuncPtr THEN optParams(expect(in.p, "RParen").p, in.name, in.st)
    ELSE [p |-> expect(in.p, "RParen").p, name |-> in.name, st |-> in.st]

\* the '(' branch after the inner group
parenParamNestedClose(in) == optParams(expect(in.p, "RParen").p, in.name, in.st)

\* the '(' branch after extractParenName; groupPos is the index of the inner '('
parenParamNested(nm, groupPos, st) ==
    parenParamNestedClose(
        IF nm.name # NoName THEN optParams(nm.p, nm.name, st)
        ELSE [p |-> skipBalancedParens([nm.p EXCEPT !.pos = groupPos]),
              name |-> NoName, st |-> st])

parseParenParamDeclarator(p0, st) ==
    LET p1 == skipGccExtensions(advance(p0))
    IN  IF peek(p1) = "Star" THEN parenParamStar(consumeStars(p1, 0), st)
        ELSE IF peek(p1) = "Identifier"
        THEN parenParamIdentClose(optParams(advance(p1), peekValue(p1), st))
        ELSE IF peek(p1) = "LParen" THEN parenParamNested(extractParenName(p1), p1.pos, st)
        ELSE [p |-> [p1 EXCEPT !.pos = p0.pos], name |-> NoName, st |-> st]

\* the name of parseParamDeclaratorFull: a parenthesised declarator, an
\* identifier or nothing
paramDeclaratorName(p, st0) ==
    IF peek(p) = "LParen" /\ isParenDeclarator(p) THEN parseParenParamDeclarator(p, st0)
    ELSE IF peek(p) = "Identifier"
    THEN [p |-> advance(p), name |-> peekValue(p), st |-> st0]
    ELSE [p |-> p, name |-> NoName, st |-> st0]

\* parseParamDeclaratorFull after the name nm
paramDeclaratorTail(nm) == optParams(nm.p, nm.name, nm.st)

\* parseParamDeclaratorFull after the leading stars
paramDeclaratorFrom(stars) ==
    paramDeclaratorTail(
        paramDeclaratorName(stars.p,
            [pointerDepth |-> stars.n, isFuncPtr |-> FALSE,
             fptrParams |-> <<>>, fptrInnerPtrDepth |-> 0]))

parseParamDeclaratorFull(p0) == paramDeclaratorFrom(consumeStars(p0, 0))

\* { type: 'PointerType', base, addressSpace: 'Default' } applied n times;
\* these wrappers carry no start/end
RECURSIVE bareWrapPointers(_, _)
bareWrapPointers(ts, n) ==
    IF n <= 0 THEN ts
    ELSE bareWrapPointers([type |-> "PointerType", base |-> ts, addressSpace |-> "Default"],
                          n - 1)

ParamDeclaration(ts, name, isConst, st) ==
    LET base == [typeSpec |-> ts, name |-> name, isConst |-> isConst,
                 vlaSizeExprs |-> <<>>, fptrInnerPtrDepth |-> st.fptrInnerPtrDepth]
    IN  IF st.isFuncPtr THEN base @@ [fptrParams |-> st.fptrParams] ELSE base

\* the implicit-int parameter of a K&R identifier list
krParam(name) ==
    [typeSpec |-> [type |-> "IntType"], name |-> name, isConst |-> FALSE,
     vlaSizeExprs |-> <<>>, fptrInnerPtrDepth |-> 0]

parseKrIdentifierList(p, params) ==
    IF peek(p) = "Identifier"
    THEN IF peek(advance(p)) = "Comma"
         THEN parseKrIdentifierList(advance(advance(p)),
                                    Append(params, krParam(peekValue(p))))
         ELSE [p |-> expect(advance(p), "RParen").p,
               params |-> Append(params, krParam(peekValue(p))), variadic |-> FALSE]
    ELSE [p |-> expect(p, "RParen").p, params |-> params, variadic |-> FALSE]

\* this.attrs.setConst(savedConst); this.attrs.setNoreturn(savedNoreturn)
restoreParamFlags(q, savedConst, savedNoreturn) ==
    setAttrFlag(setAttrFlag(q, ATTR_CONST, savedConst), ATTR_NORETURN, savedNoreturn)

\* history: one iteration of the parameter loop ended at the cursor of q;
\* the noreturn flag when the iteration began, when the parameter had been
\* read (the state r) and when the iteration ended
logParam(q, r, savedNoreturn) ==
    [q EXCEPT !.log = @ \cup {[op |-> "param", at |-> q.pos,
                               noreturnBefore |-> savedNoreturn,
                               noreturnInside |-> getAttrFlag(r, ATTR_NORETURN),
                               noreturnAfter |-> getAttrFlag(q, ATTR_NORETURN)]}]

\* after a parameter: the comma goes on, anything else ends the list
paramNext(q, ps) ==
    IF peek(q) = "Comma" THEN paramLoop(advance(q), ps)
    ELSE [p |-> expectClosing(q, "RParen").p, params |-> ps, variadic |-> FALSE]

\* after the declarator d of a parameter of type tn
paramAfterDeclarator(d, tn, paramIsConst, savedConst, savedNoreturn, params) ==
    paramNext(logParam(restoreParamFlags(skipGccExtensions(d.p), savedConst, savedNoreturn),
                       d.p, savedNoreturn),
              Append(params,
                     ParamDeclaration(
                         bareWrapPointers(tn, d.st.pointerDepth
                                              + (IF d.st.isFuncPtr THEN 1 ELSE 0)),
                         d.name, paramIsConst, d.st)))

\* after the type specifier t of a parameter
paramAfterType(t, savedConst, savedNoreturn, params) ==
    IF t.n # null
    THEN paramAfterDeclarator(parseParamDeclaratorFull(t.p), t.n,
                              getAttrFlag(t.p, ATTR_CONST),
                              savedConst, savedNoreturn, params)
    ELSE [p |-> expectClosing(logParam(restoreParamFlags(t.p, savedConst, savedNoreturn),
                                       t.p, savedNoreturn),
                              "RParen").p,
          params |-> params, variadic |-> FALSE]

\* the for (;;) loop of parseParamList and the expectClosing after it
paramLoop(p0, params) ==
    IF peek(p0) = "Ellipsis"
    THEN [p |-> expectClosing(advance(p0), "RParen").p, params |-> params, variadic |-> TRUE]
    ELSE paramAfterType(
             parseTypeSpecifier(
                 setAttrFlag(setAttrFlag(skipGccExtensions(p0), ATTR_CONST, FALSE),
                             ATTR_NORETURN, getAttrFlag(p0, ATTR_NORETURN))),
             getAttrFlag(p0, ATTR_CONST), getAttrFlag(p0, ATTR_NORETURN), params)

parseParamListBody(p0) ==
    LET p1 == expectContext(p0, "LParen").p
    IN  IF peek(p1) = "RParen"
        THEN [p |-> advance(p1), params |-> <<>>, variadic |-> FALSE]
        ELSE IF peek(p1) = "Void" /\ peek(advance(p1)) = "RParen"
        THEN [p |-> advance(advance(p1)), params |-> <<>>, variadic |-> FALSE]
        ELSE IF peek(p1) = "Identifier" /\ ~isTypedefName(p1, peekValue(p1))
                /\ ~isTypeSpecifier(p1)
        THEN parseKrIdentifierList(p1, <<>>)
        ELSE paramLoop(p1, <<>>)

\* outerSuffixes.push({ kind: 'Function', params, variadic }) for the list r
suffixAfterParams(r, outerSuffixes) ==
    declaratorSuffixes(r.p, Append(outerSuffixes,
        [kind |-> "Function", params |-> r.params, variadic |-> r.variadic]))

\* the loop over outer suffixes of parseDeclaratorWithAttrs
declaratorSuffixes(p, outerSuffixes) ==
    IF peek(p) = "LParen" THEN suffixAfterParams(parseParamList(p), outerSuffixes)
    ELSE [p |-> p, outerSuffixes |-> outerSuffixes]

\* the parenthesised declarator after the inner declarator in: without the
\* closing parenthesis the cursor goes back to the opening one at save
parenDeclaratorClose(in, save) ==
    IF peek(in.p) = "RParen"
    THEN [p |-> advance(in.p), name |-> in.name, derived |-> in.derived]
    ELSE [p |-> [in.p EXCEPT !.pos = save], name |-> NoName, derived |-> <<>>]

\* the name of parseDeclaratorWithAttrs: an identifier, a parenthesised
\* declarator or nothing
directDeclarator(p1) ==
    IF peek(p1) = "Identifier"
    THEN [p |-> advance(p1), name |-> peekValue(p1), derived |-> <<>>]
    ELSE IF peek(p1) = "LParen" /\ isParenDeclarator(p1)
    THEN parenDeclaratorClose(parseDeclaratorWithAttrs(advance(p1)), p1.pos)
    ELSE [p |-> p1, name |-> NoName, derived |-> <<>>]

\* parseDeclaratorWithAttrs after the outer suffixes sfx
declaratorResult(nStars, dd, sfx) ==
    [p |-> parseGccAttributes(sfx.p), name |-> dd.name,
     derived |-> combineDeclaratorParts(Pointers(nStars), dd.derived, sfx.outerSuffixes)]

\* parseDeclaratorWithAttrs after the name dd
declaratorAfterName(nStars, dd) ==
    declaratorResult(nStars, dd, declaratorSuffixes(dd.p, <<>>))

\* parseDeclaratorWithAttrs after the leading stars
declaratorFrom(stars) == declaratorAfterName(stars.n, directDeclarator(stars.p))

parseDeclaratorWithAttrsBody(p0) == declaratorFrom(consumeStars(parseGccAttributes(p0), 0))

-----------------------------------------------------------------------------
(* Abstract declarators (declarators.ts, types.ts)                         *)

RECURSIVE tryParseParenAbstractDeclarator(_)

\* this.pos = save; return null
abstractFail(q, save) == [p |-> [q EXCEPT !.pos = save], r |-> null]

\* if (!this.consumeIf(RParen)) { this.pos = save; return null }; return r
abstractClose(q, save, r) ==
    IF peek(q) = "RParen" THEN [p |-> advance(q), r |-> r] ELSE abstractFail(q, save)

\* the nested function pointer after the inner parameter list pl
abstractNestedParams(pl, save, nStars, innerDepth) ==
    abstractClose(pl.p, save,
                  [kind |-> "NestedFnPtr", outerPtrDepth |-> nStars,
                   innerPtrDepth |-> innerDepth, innerParams |-> pl.params,
                   innerVariadic |-> pl.variadic])

\* after the inner group of a group that goes on with '('
abstractAfterInner(inner, save, nStars) ==
    IF inner.r = null THEN abstractFail(inner.p, save)
    ELSE IF inner.r.kind = "Simple"
    THEN IF peek(inner.p) = "LParen"
         THEN abstractNestedParams(parseParamList(inner.p), save, nStars, inner.r.ptrDepth)
         ELSE abstractClose(inner.p, save,
                            [kind |-> "Simple", ptrDepth |-> nStars + inner.r.ptrDepth])
    ELSE abstractClose(inner.p, save, inner.r)

\* after the stars of a group: an inner group, or the closing parenthesis
\* of a group of at least one star
abstractAfterStars(stars, save) ==
    IF peek(stars.p) = "LParen"
    THEN abstractAfterInner(tryParseParenAbstractDeclarator(stars.p), save, stars.n)
    ELSE IF stars.n > 0
    THEN abstractClose(stars.p, save, [kind |-> "Simple", ptrDepth |-> stars.n])
    ELSE abstractFail(stars.p, save)

tryParseParenAbstractDeclarator(p0) ==
    IF peek(p0) # "LParen" THEN [p |-> p0, r |-> null]
    ELSE abstractAfterStars(consumeStars(advance(p0), 0), p0.pos)

\* wrapPointerType(result, 'Default') applied n times (span of the base)
RECURSIVE wrapPointers(_, _)
wrapPointers(ts, n) ==
    IF n <= 0 THEN ts
    ELSE wrapPointers(wrapPointerType(ts, "Default", [start |-> ts.start, end |-> ts.end]),
                      n - 1)

\* the leading-pointer loop of parseAbstractDeclaratorSuffix
RECURSIVE abstractPointers(_, _)
abstractPointers(p, result) ==
    IF peek(p) = "Star"
    THEN abstractPointers(skipCvQualifiers(advance(p)),
             wrapPointerType(result, "Default",
                             [start |-> Min(result.start, tokens[p.pos + 1].start),
                              end   |-> Max(result.end, tokens[p.pos + 1].end)]))
    ELSE [p |-> p, n |-> result]

\* a pointer group followed by the parameter list pl: pointer(s) to function
abstractFnType(pl, base, ptrDepth) ==
    [p |-> pl.p,
     n |-> wrapPointers(wrapFunctionPointerType(base, pl.params, pl.variadic),
                        ptrDepth - 1)]

\* a nested group r followed by the parameter list pl
abstractNestedFnType(pl, base, r) ==
    [p |-> pl.p,
     n |-> wrapPointers(
               wrapFunctionPointerType(
                   wrapFunctionPointerType(wrapPointers(base, r.innerPtrDepth - 1),
                                           pl.params, pl.variadic),
                   r.innerParams, r.innerVariadic),
               r.outerPtrDepth - 1)]

\* parseAbstractDeclaratorSuffix after the attempt pd at a group; ptr is the
\* result of the pointer loop and save the index of the '('
abstractAfterGroup(pd, ptr, save) ==
    IF pd.r = null THEN [p |-> [pd.p EXCEPT !.pos = save], n |-> ptr.n]
    ELSE IF pd.r.kind = "Simple"
    THEN IF peek(pd.p) = "LParen"
         THEN abstractFnType(parseParamList(pd.p), ptr.n, pd.r.ptrDepth)
         ELSE [p |-> pd.p, n |-> wrapPointers(ptr.n, pd.r.ptrDepth)]
    ELSE IF peek(pd.p) = "LParen"
    THEN abstractNestedFnType(parseParamList(pd.p), ptr.n, pd.r)
    ELSE [p |-> pd.p,
          n |-> wrapPointers(ptr.n, pd.r.outerPtrDepth + pd.r.innerPtrDepth)]

\* parseAbstractDeclaratorSuffix after the pointer loop
abstractAfterPointers(ptr) ==
    IF peek(ptr.p) # "LParen" THEN ptr
    ELSE abstractAfterGroup(tryParseParenAbstractDeclarator(ptr.p), ptr, ptr.p.pos)

parseAbstractDeclaratorSuffixBody(p0, resultType) ==
    abstractAfterPointers(abstractPointers(skipCvQualifiers(p0), resultType))

-----------------------------------------------------------------------------
(* Expressions (expressions.ts)                                            *)

LOC == [start |-> [line |-> 1, column |-> 0], end |-> [line |-> 1, column |-> 0]]

\* const enum PrecedenceLevel, loosest first
PrecedenceLevels ==
    <<"LogicalOr", "LogicalAnd", "BitwiseOr", "BitwiseXor", "BitwiseAnd",
      "Equality", "Relational", "Shift", "Additive", "Multiplicative">>

tokenToBinop(token, level) ==
    CASE level = "LogicalOr"  -> IF token = "PipePipe" THEN "LogicalOr" ELSE ""
      [] level = "LogicalAnd" -> IF token = "AmpAmp" THEN "LogicalAnd" ELSE ""
      [] level = "BitwiseOr"  -> IF token = "Pipe" THEN "BitOr" ELSE ""
      [] level = "BitwiseXor" -> IF token = "Caret" THEN "BitXor" ELSE ""
      [] level = "BitwiseAnd" -> IF token = "Amp" THEN "BitAnd" ELSE ""
      [] level = "Equality" ->
            IF token = "EqualEqual" THEN "Eq"
            ELSE IF token = "BangEqual" THEN "Ne" ELSE ""
      [] level = "Relational" ->
            IF token = "Less" THEN "Lt"
            ELSE IF token = "LessEqual" THEN "Le"
            ELSE IF token = "Greater" THEN "Gt"
            ELSE IF token = "GreaterEqual" THEN "Ge" ELSE ""
      [] level = "Shift" ->
            IF token = "LessLess" THEN "Shl"
            ELSE IF token = "GreaterGreater" THEN "Shr" ELSE ""
      [] level = "Additive" ->
            IF token = "Plus" THEN "Add"
            ELSE IF token = "Minus" THEN "Sub" ELSE ""
      [] level = "Multiplicative" ->
            IF token = "Star" THEN "Mul"
            ELSE IF token = "Slash" THEN "Div"
            ELSE IF token = "Percent" THEN "Mod" ELSE ""

compoundAssignOp(p) ==
    LET k == peek(p)
    IN  CASE k = "PlusAssign" -> "Add"
          [] k = "MinusAssign" -> "Sub"
          [] k = "StarAssign" -> "Mul"
          [] k = "SlashAssign" -> "Div"
          [] k = "PercentAssign" -> "Mod"
          [] k = "AmpAssign" -> "BitAnd"
          [] k = "PipeAssign" -> "BitOr"
          [] k = "CaretAssign" -> "BitXor"
          [] k = "LessLessAssign" -> "Shl"
          [] k = "GreaterGreaterAssign" -> "Shr"
          [] OTHER -> ""

\* an expression node with the span of one token
ExprNode(fields, span) == fields @@ [start |-> span.start, end |-> span.end, loc |-> LOC]

RECURSIVE parseSizeofExpr(_)
RECURSIVE parseBinaryExpr(_, _)
RECURSIVE binaryLoop(_, _, _)
RECURSIVE parseNextTighter(_, _)
RECURSIVE climb(_, _, _)
RECURSIVE parseUnaryExpr(_)
RECURSIVE parsePostfixOps(_, _)
RECURSIVE callArgs(_, _)
RECURSIVE parsePrimaryExpr(_)

(* A callee that has entered the loop that never ends does not return, so   *)
(* the caller does not go on: each operator looks at hung in the state its  *)
(* callee left and hands that state on.                                     *)

\* { type: 'CommaExpression', left, right, ...span }
commaNode(lhs, rhs) ==
    [p |-> rhs.p,
     n |-> ExprNode([type |-> "CommaExpression", left |-> lhs.n, right |-> rhs.n],
                    peekSpan(lhs.p))]

\* parseExpr after its first assignment expression
exprAfterAssignment(lhs) ==
    IF lhs.p.hung THEN lhs
    ELSE IF peek(lhs.p) = "Comma" THEN commaNode(lhs, parseExpr(advance(lhs.p)))
    ELSE lhs

parseExprBody(p0) == exprAfterAssignment(parseAssignmentExpr(p0))

\* parseTypeofSpecifier: the type-first attempt after the abstract declarator
\* a; ok says whether a closing parenthesis follows
typeofAfterSuffix(a) == [ok |-> peek(a.p) = "RParen", p |-> a.p, n |-> a.n]

\* the type-first attempt after the type specifier ts
typeofAfterType(ts) ==
    IF ts.n = null THEN [ok |-> FALSE, p |-> ts.p, n |-> null]
    ELSE typeofAfterSuffix(parseAbstractDeclaratorSuffix(ts.p, ts.n))

\* "Didn't work as type, backtrack": this.pos = save, the flags are put
\* back, and '(' is expected again at save, the token after the '('
typeofBacktrack(q, save, savedFlags) ==
    expectContext(restoreAttrFlags([q EXCEPT !.pos = save], savedFlags), "LParen").p

\* the TypeofTypeType node of a committed attempt att
typeofType(att, startPos, savedFlags) ==
    LET p2 == restoreAttrFlags(advance(att.p), savedFlags)
    IN  [p |-> p2,
         n |-> withTypeSpan([type |-> "TypeofTypeType", typeSpec |-> att.n],
                            spanFromTokenRange(startPos, p2.pos))]

\* the TypeofExprType node over the expression e
typeofExpr(e, startPos, savedFlags) ==
    IF e.p.hung THEN e
    ELSE LET p2 == restoreAttrFlags(expectClosing(e.p, "RParen").p, savedFlags)
         IN  [p |-> p2,
              n |-> withTypeSpan([type |-> "TypeofExprType", expr |-> e.n],
                                 spanFromTokenRange(startPos, p2.pos))]

\* parseTypeofSpecifier after the attempt att that began in the state p1
typeofAfterAttempt(att, p1, startPos) ==
    IF att.p.hung THEN [p |-> att.p, n |-> null]
    ELSE IF att.ok THEN typeofType(att, startPos, saveAttrFlags(p1))
    ELSE typeofExpr(parseExpr(IF isTypeSpecifier(p1)
                              THEN logBacktrack(typeofBacktrack(att.p, p1.pos,
                                                                saveAttrFlags(p1)),
                                                "typeof", p1)
                              ELSE p1),
                    startPos, saveAttrFlags(p1))

\* parseTypeofSpecifier from "const savedFlags = this.saveAttrFlags()" on
typeofFrom(p1, startPos) ==
    typeofAfterAttempt(IF isTypeSpecifier(p1) THEN typeofAfterType(parseTypeSpecifier(p1))
                       ELSE [ok |-> FALSE, p |-> p1, n |-> null],
                       p1, startPos)

parseTypeofSpecifierBody(p) == typeofFrom(expectContext(p, "LParen").p, Max(0, p.pos - 1))

\* the assignment node over lhs and rhs; fields holds type and operator
assignNode(lhs, rhs, fields) ==
    [p |-> rhs.p,
     n |-> ExprNode(fields @@ [left |-> lhs.n, right |-> rhs.n], peekSpan(lhs.p))]

\* parseAssignmentExpr after its conditional expression
assignmentAfterConditional(lhs) ==
    IF lhs.p.hung THEN lhs
    ELSE IF peek(lhs.p) = "Assign"
    THEN assignNode(lhs, parseAssignmentExpr(advance(lhs.p)),
                    [type |-> "AssignExpression"])
    ELSE IF compoundAssignOp(lhs.p) # ""
    THEN assignNode(lhs, parseAssignmentExpr(advance(lhs.p)),
                    [type |-> "CompoundAssignExpression",
                     operator |-> compoundAssignOp(lhs.p)])
    ELSE lhs

\* the ?: branch needs a Question token, which is outside the vocabulary
parseConditionalExpr(p0) == parseBinaryExpr(p0, "LogicalOr")

parseAssignmentExprBody(p0) == assignmentAfterConditional(parseConditionalExpr(p0))

\* lhs = { type: 'BinaryExpression', operator: op, left: lhs, right: rhs,
\* ...span } and the loop again; p is the state at the operator token
binaryNode(p, level, op, lhs, rhs) ==
    IF rhs.p.hung THEN rhs
    ELSE binaryLoop(rhs.p, level,
                    ExprNode([type |-> "BinaryExpression", operator |-> op,
                              left |-> lhs, right |-> rhs.n], peekSpan(p)))

\* binaryLoop with the right operand parsed at the level of the loop, which
\* SameLevelNestsLeft must detect
binaryLoopSameLevel(p, level, lhs) ==
    IF tokenToBinop(peek(p), level) # ""
    THEN binaryNode(p, level, tokenToBinop(peek(p), level), lhs,
                    parseBinaryExpr(advance(p), level))
    ELSE [p |-> p, n |-> lhs]

\* the while loop of parseBinaryExpr
binaryLoop(p, level, lhs) ==
    IF tokenToBinop(peek(p), level) # ""
    THEN binaryNode(p, level, tokenToBinop(peek(p), level), lhs,
                    parseNextTighter(advance(p), level))
    ELSE [p |-> p, n |-> lhs]

\* the position of a level in PrecedenceLevels
levelIndex(level) == CHOOSE i \in DOMAIN PrecedenceLevels : PrecedenceLevels[i] = level

\* the loops of the levels i, i - 1, .., top, each from the result of the one
\* before; lhs is the result of the level tighter than i
climb(lhs, i, top) ==
    IF lhs.p.hung \/ i < top THEN lhs
    ELSE climb(binaryLoop(lhs.p, PrecedenceLevels[i], lhs.n), i - 1, top)

\* let lhs = this.parseNextTighter(level), then the loop.  The left operand
\* of a level is the result of the next tighter level, whose left operand is
\* again the result of the level after it, down to parseCastExpr at
\* Multiplicative; the chain is written from its far end: the cast
\* expression first, then the loop of each level from Multiplicative up to
\* the level asked for.
parseBinaryExpr(p0, level) ==
    climb(parseCastExpr(p0), Len(PrecedenceLevels), levelIndex(level))

\* parseNextTighter with every right operand a cast expression, which
\* TighterBindsFirst must detect
parseNextTighterCast(p, level) == parseCastExpr(p)

parseNextTighter(p, level) ==
    IF level = "Multiplicative" THEN parseCastExpr(p)
    ELSE parseBinaryExpr(p, PrecedenceLevels[levelIndex(level) + 1])

\* the speculative part of parseCastExpr after the abstract declarator a:
\* ok says whether a closing parenthesis follows
castAfterSuffix(a) == [ok |-> peek(a.p) = "RParen", p |-> a.p, n |-> a.n]

\* the speculative part after the type specifier t
castAfterType(t) ==
    IF t.n = null THEN [ok |-> FALSE, p |-> t.p, n |-> null]
    ELSE castAfterSuffix(parseAbstractDeclaratorSuffix(t.p, t.n))

\* the speculative part of parseCastExpr: from the token after '(' up to the
\* test for ')'.  ok says whether the cast is committed; p is the state at
\* that point.
castAttempt(p1) ==
    IF ~isTypeSpecifier(p1) THEN [ok |-> FALSE, p |-> p1, n |-> null]
    ELSE castAfterType(parseTypeSpecifier(p1))

\* castBacktrack with the cursor left where the attempt stopped, which
\* CastExactlyOnTypeName must detect
castBacktrackFlagsOnly(q, save, saveTypedef, saveConst) ==
    setAttrFlag(setAttrFlag(q, ATTR_TYPEDEF, saveTypedef), ATTR_CONST, saveConst)

\* the backtrack of parseCastExpr: the cursor and two flags are put back
castBacktrack(q, save, saveTypedef, saveConst) ==
    setAttrFlag(setAttrFlag([q EXCEPT !.pos = save], ATTR_TYPEDEF, saveTypedef),
                ATTR_CONST, saveConst)

\* the cast node over the operand e
castNode(e, typeSpec, span, saveConst) ==
    IF e.p.hung THEN e
    ELSE [p |-> setAttrFlag(e.p, ATTR_CONST, saveConst),
          n |-> ExprNode([type |-> "CastExpression", typeSpec |-> typeSpec,
                          operand |-> e.n], span)]

\* parseCastExpr after the closing parenthesis of the type name
castCommitted(p2, typeSpec, span, saveConst) ==
    IF peek(p2) = "LBrace"
    THEN \* compound literal: (type){...}
         [p |-> logUnmodelled(p2, "compound literal"), n |-> null]
    ELSE castNode(parseCastExpr(p2), typeSpec, span, saveConst)

\* parseCastExpr and parseSizeofExpr make the same speculative type parse
\* and fall back to parseUnaryExpr in the same way.  who tells which of the
\* two is running; before is the state at the '(' or, where there is none,
\* at the operand.

\* the backtrack of parseSizeofExpr: the cursor and two flags are put back
sizeofBacktrack(q, save, saveTypedef, saveConst) ==
    setAttrFlag(setAttrFlag([q EXCEPT !.pos = save], ATTR_TYPEDEF, saveTypedef),
                ATTR_CONST, saveConst)

\* parseCastExpr after the backtrack that left the state back
castFallback(back, save, before) ==
    logBacktrack(logCast(back, save, FALSE, back.pos), "cast", before)

\* the state in which parseUnaryExpr is called: the one before when no
\* parenthesis was there, else the one put back after the attempt att
speculationFallback(att, before, who) ==
    IF peek(before) # "LParen" THEN before
    ELSE IF who = "cast"
    THEN castFallback(castBacktrack(att.p, before.pos, getAttrFlag(before, ATTR_TYPEDEF),
                                    getAttrFlag(before, ATTR_CONST)),
                      before.pos, before)
    ELSE logBacktrack(sizeofBacktrack(att.p, before.pos,
                                      getAttrFlag(before, ATTR_TYPEDEF),
                                      getAttrFlag(before, ATTR_CONST)),
                      "sizeof", before)

\* the operand e of the fallback: the result of parseCastExpr, or the
\* argument { kind: 'Expr', expr } of parseSizeofExpr
fallbackOperand(e, who) ==
    IF who = "cast" \/ e.p.hung THEN e
    ELSE [p |-> e.p, n |-> [kind |-> "Expr", expr |-> e.n]]

\* parseSizeofExpr after the closing parenthesis of the type name: the
\* argument { kind: 'Type', typeSpec }
sizeofType(att, before) ==
    [p |-> setAttrFlag(expect(att.p, "RParen").p, ATTR_CONST,
                       getAttrFlag(before, ATTR_CONST)),
     n |-> [kind |-> "Type", typeSpec |-> att.n]]

\* parseCastExpr and parseSizeofExpr after the attempt att
castAfterAttempt(att, before, who) ==
    IF att.ok
    THEN IF who = "cast"
         THEN castCommitted(logCast(advance(att.p), before.pos, TRUE, before.pos), att.n,
                            peekSpan(att.p), getAttrFlag(before, ATTR_CONST))
         ELSE sizeofType(att, before)
    ELSE fallbackOperand(parseUnaryExpr(speculationFallback(att, before, who)), who)

\* if (this.peek() === TokenKind.LParen) { ... } return this.parseUnaryExpr()
speculate(before, who) ==
    castAfterAttempt(IF peek(before) = "LParen" THEN castAttempt(advance(before))
                     ELSE [ok |-> FALSE, p |-> before, n |-> null],
                     before, who)

parseCastExprBody(p0) == speculate(p0, "cast")

\* the SizeofExpression over the argument a
sizeofNode(a, span) ==
    IF a.p.hung THEN a
    ELSE [p |-> a.p,
          n |-> ExprNode([type |-> "SizeofExpression", argument |-> a.n], span)]

parseSizeofExpr(p0) == sizeofNode(speculate(advance(p0), "sizeof"), peekSpan(p0))

\* the node of a prefix operator over its operand e
unaryNode(e, fields, span) ==
    [p |-> e.p, n |-> ExprNode(fields @@ [operand |-> e.n], span)]

\* a prefix operator whose operand is a cast expression
unaryOf(p, fields) == unaryNode(parseCastExpr(advance(p)), fields, peekSpan(p))

\* the prefix operators that take a cast expression, with their node fields
UnaryOperators ==
    [Plus  |-> [type |-> "UnaryExpression", operator |-> "Plus"],
     Minus |-> [type |-> "UnaryExpression", operator |-> "Neg"],
     Tilde |-> [type |-> "UnaryExpression", operator |-> "BitNot"],
     Bang  |-> [type |-> "UnaryExpression", operator |-> "LogicalNot"],
     Amp   |-> [type |-> "AddressOfExpression"],
     Star  |-> [type |-> "DerefExpression"]]

\* parsePostfixExpr after the primary expression
postfixAfterPrimary(e) == IF e.p.hung THEN e ELSE parsePostfixOps(e.p, e.n)

parsePostfixExpr(p0) == postfixAfterPrimary(parsePrimaryExpr(p0))

parseUnaryExpr(p) ==
    IF peek(p) \in DOMAIN UnaryOperators THEN unaryOf(p, UnaryOperators[peek(p)])
    ELSE IF peek(p) = "Sizeof" THEN parseSizeofExpr(p)
    ELSE IF peek(p) = "AmpAmp" /\ peekKindAt(p, 1) = "Identifier"
    THEN [p |-> advance(advance(p)),
          n |-> ExprNode([type |-> "LabelAddrExpression",
                          label |-> tokens[p.pos + 2].value], peekSpan(p))]
    ELSE parsePostfixExpr(p)

\* the arguments after the argument a
callArgsNext(a, args) ==
    IF a.p.hung THEN [p |-> a.p, args |-> args]
    ELSE IF peek(a.p) = "Comma" THEN callArgs(advance(a.p), Append(args, a.n))
    ELSE [p |-> a.p, args |-> Append(args, a.n)]

\* args.push(parseAssignmentExpr()) while a comma follows
callArgs(p0, args) == callArgsNext(parseAssignmentExpr(p0), args)

\* the call node after the argument list as; open is the span of the '('
callNode(as, callee, open) ==
    IF as.p.hung THEN [p |-> as.p, n |-> callee]
    ELSE parsePostfixOps(expectClosing(as.p, "RParen").p,
                         ExprNode([type |-> "FunctionCallExpression", callee |-> callee,
                                   args |-> as.args], open))

\* subscript, member access and ++/-- need tokens outside the vocabulary
parsePostfixOps(p, result) ==
    IF peek(p) = "LParen"
    THEN callNode(IF peek(advance(p)) # "RParen" THEN callArgs(advance(p), <<>>)
                  ELSE [p |-> advance(p), args |-> <<>>],
                  result, peekSpan(p))
    ELSE [p |-> p, n |-> result]

\* a statement expression after its block c
stmtExprClose(c, span) ==
    IF c.p.hung THEN c
    ELSE [p |-> expectClosing(c.p, "RParen").p,
          n |-> ExprNode([type |-> "StmtExpression", body |-> c.n], span)]

\* a parenthesised expression after the expression e
parenClose(e) ==
    IF e.p.hung THEN e ELSE [p |-> expectClosing(e.p, "RParen").p, n |-> e.n]

parsePrimaryExpr(p) ==
    LET k    == peek(p)
        span == peekSpan(p)
    IN  CASE k = "IntLiteral" ->
                [p |-> advance(p),
                 n |-> ExprNode([type |-> "IntLiteral", value |-> peekNum(p)], span)]
          [] k = "LongLiteral" ->
                [p |-> advance(p),
                 n |-> ExprNode([type |-> "LongLiteral", value |-> peekNum(p)], span)]
          [] k = "Identifier" ->
                [p |-> advance(p),
                 n |-> ExprNode([type |-> "Identifier", name |-> peekValue(p)], span)]
          [] k = "LParen" ->
                IF peek(advance(p)) = "LBrace"
                THEN stmtExprClose(parseCompoundStmt(advance(p)), peekSpan(advance(p)))
                ELSE parenClose(parseExpr(advance(p)))
          [] k = "Extension" -> parseCastExpr(advance(p))
          [] OTHER ->
                [p |-> advance(emitError(p)),
                 n |-> ExprNode([type |-> "IntLiteral", value |-> 0], span)]

-----------------------------------------------------------------------------
(* Declarations (declarations.ts)                                          *)
(*                                                                         *)
(* Of a Declaration the model keeps type, typeSpec, declarators, the four  *)
(* storage flags and the span; of the attribute records it keeps           *)
(* isNoreturn.  The other fields are constants for the modelled grammar.   *)

\* the for (;;) loop of consumePostTypeQualifiers.  An __attribute__ token
\* calls skipGccExtensions, which consumes __extension__ tokens only: the
\* iteration ends in the state it began in and is repeated without end.
\* hung records that the loop was entered in such a state.
RECURSIVE consumePostTypeQualifiers(_)
consumePostTypeQualifiers(p) ==
    LET k == peek(p)
    IN  CASE k = "Static" -> consumePostTypeQualifiers(advance(setAttrFlag(p, ATTR_STATIC, TRUE)))
          [] k = "Extern" -> consumePostTypeQualifiers(advance(setAttrFlag(p, ATTR_EXTERN, TRUE)))
          [] k = "Typedef" -> consumePostTypeQualifiers(advance(setAttrFlag(p, ATTR_TYPEDEF, TRUE)))
          [] k = "Inline" -> consumePostTypeQualifiers(advance(setAttrFlag(p, ATTR_INLINE, TRUE)))
          [] k = "ThreadLocal" ->
                consumePostTypeQualifiers(advance(setAttrFlag(p, ATTR_THREAD_LOCAL, TRUE)))
          [] k = "Const" -> consumePostTypeQualifiers(advance(setAttrFlag(p, ATTR_CONST, TRUE)))
          [] k = "Volatile" ->
                consumePostTypeQualifiers(advance(setAttrFlag(p, ATTR_VOLATILE, TRUE)))
          [] k \in {"Register", "Restrict"} -> consumePostTypeQualifiers(advance(p))
          [] k = "Noreturn" ->
                consumePostTypeQualifiers(advance(setAttrFlag(p, ATTR_NORETURN, TRUE)))
          [] k \in {"Attribute", "Extension"} ->
                LET q == skipGccExtensions(p)
                IN  IF q = p THEN [p EXCEPT !.hung = TRUE]
                    ELSE consumePostTypeQualifiers(q)
          [] OTHER -> p

\* the names of the declarators that have one (decl.name && decl.name.length > 0)
declaredNames(declarators) ==
    {declarators[i].name : i \in DOMAIN declarators} \ {NoName}

\* registerTypedefs with the registration left out, which TypedefNameStartsDeclaration
\* must detect
registerNothing(p, declarators) == p

registerTypedefs(p, declarators) ==
    IF ~getAttrFlag(p, ATTR_TYPEDEF) THEN p
    ELSE [p EXCEPT !.typedefs = @ \cup declaredNames(declarators),
                   !.shadowedTypedefs = @ \ declaredNames(declarators)]

RECURSIVE parseForStmt(_)
RECURSIVE blockItems(_, _)

\* x | 0 for a sum, difference or product x of two 32-bit integers that is
\* less than 2^32 away from their range
toInt32(x) ==
    IF x > I32_MAX THEN ((x - I32_MAX) - I32_MAX) - 2
    ELSE IF x < (0 - I32_MAX) - 1 THEN ((x + I32_MAX) + I32_MAX) + 2
    ELSE x

\* the expressions on which the model follows the module evaluator: literals,
\* identifiers, + - * == != and the unary - ! + of such expressions
RECURSIVE evaluatorCovers(_)
evaluatorCovers(expr) ==
    CASE expr.type \in {"IntLiteral", "LongLiteral", "Identifier"} -> TRUE
      [] expr.type = "BinaryExpression" ->
            /\ expr.operator \in {"Add", "Sub", "Mul", "Eq", "Ne"}
            /\ evaluatorCovers(expr.left)
            /\ evaluatorCovers(expr.right)
      [] expr.type = "UnaryExpression" ->
            /\ expr.operator \in {"Neg", "LogicalNot", "Plus"}
            /\ evaluatorCovers(expr.operand)
      [] OTHER -> FALSE

\* evalBinaryOp for the operators above
evalBinaryOp(op, l, r) ==
    CASE op = "Add" -> <<toInt32(l + r)>>
      [] op = "Sub" -> <<toInt32(l - r)>>
      [] op = "Mul" -> <<toInt32(l * r)>>
      [] op = "Eq" -> <<IF l = r THEN 1 ELSE 0>>
      [] op = "Ne" -> <<IF l # r THEN 1 ELSE 0>>
      [] OTHER -> NoValue

\* the unary operators of the module evaluator
evalUnaryOp(op, inner) ==
    CASE op = "Neg" -> <<toInt32(0 - inner)>>
      [] op = "LogicalNot" -> <<IF inner = 0 THEN 1 ELSE 0>>
      [] op = "Plus" -> <<inner>>
      [] OTHER -> NoValue

\* the module function evalConstIntExprWithEnums of part_009; enums is null
\* when the map is empty
RECURSIVE evalConstIntExprOfModule(_, _)
evalConstIntExprOfModule(expr, enums) ==
    CASE expr.type \in {"IntLiteral", "LongLiteral"} -> <<expr.value>>
      [] expr.type = "Identifier" ->
            IF expr.name \in DOMAIN enums THEN <<enums[expr.name]>> ELSE NoValue
      [] expr.type = "BinaryExpression" ->
            IF evalConstIntExprOfModule(expr.left, enums) = NoValue
               \/ evalConstIntExprOfModule(expr.right, enums) = NoValue
            THEN NoValue
            ELSE evalBinaryOp(expr.operator,
                              evalConstIntExprOfModule(expr.left, enums)[1],
                              evalConstIntExprOfModule(expr.right, enums)[1])
      [] expr.type = "UnaryExpression" ->
            IF evalConstIntExprOfModule(expr.operand, enums) = NoValue THEN NoValue
            ELSE evalUnaryOp(expr.operator, evalConstIntExprOfModule(expr.operand, enums)[1])
      [] OTHER -> NoValue

\* the designators of an initializer item
IndexDesignator(index) == [kind |-> "Index", index |-> index]

RangeDesignator(low, high) == [kind |-> "Range", low |-> low, high |-> high]

FieldDesignator(name) == [kind |-> "Field", name |-> name]

\* designators.findIndex((d) => d.kind === 'Range'), from 1; 0 for -1
rangePosOf(designators) ==
    IF \E k \in DOMAIN designators : designators[k].kind = "Range"
    THEN CHOOSE k \in DOMAIN designators :
            /\ designators[k].kind = "Range"
            /\ \A j \in 1..(k - 1) : designators[j].kind # "Range"
    ELSE 0

\* the literal that stands for the index idx of a range
rangeIndex(idx) ==
    [type |-> "IntLiteral", value |-> idx, start |-> 0, end |-> 0, loc |-> LOC]

\* the entries of item, whose designator at rangePos is a range from lo to hi
rangeEntries(item, rangePos, lo, hi) ==
    [k \in 1..(IF hi >= lo THEN hi - lo + 1 ELSE 0) |->
        [designators |-> [item.designators EXCEPT
                             ![rangePos] = IndexDesignator(rangeIndex(lo + k - 1))],
         init |-> item.init]]

\* the entries of item with every range of it taken apart, which
\* RangesWithValuesAreExpanded must not tell from expandRangeDesignators
RECURSIVE expandEveryRange(_, _)
expandEveryRange(items, enumConsts) ==
    IF items = <<>> THEN <<>>
    ELSE LET item     == Head(items)
             rangePos == rangePosOf(item.designators)
             lo == evalConstIntExprOfModule(item.designators[rangePos].low, enumConsts)
             hi == evalConstIntExprOfModule(item.designators[rangePos].high, enumConsts)
         IN  IF rangePos > 0 /\ lo # NoValue /\ hi # NoValue
             THEN expandEveryRange(rangeEntries(item, rangePos, lo[1], hi[1]), enumConsts)
                    \o expandEveryRange(Tail(items), enumConsts)
             ELSE <<item>> \o expandEveryRange(Tail(items), enumConsts)

\* expandRangeDesignators; enumConsts is the empty map for null
RECURSIVE expandRangeDesignators(_, _)
expandRangeDesignators(items, enumConsts) ==
    IF items = <<>> THEN <<>>
    ELSE LET item     == Head(items)
             rangePos == rangePosOf(item.designators)
             lo == evalConstIntExprOfModule(item.designators[rangePos].low, enumConsts)
             hi == evalConstIntExprOfModule(item.designators[rangePos].high, enumConsts)
         IN  IF rangePos > 0 /\ lo # NoValue /\ hi # NoValue
             THEN rangeEntries(item, rangePos, lo[1], hi[1])
                    \o expandRangeDesignators(Tail(items), enumConsts)
             ELSE <<item>> \o expandRangeDesignators(Tail(items), enumConsts)

\* the bounds of the ranges of items are expressions that the model of the
\* evaluator follows
rangeBoundsCovered(items) ==
    \A i \in DOMAIN items : \A k \in DOMAIN items[i].designators :
        items[i].designators[k].kind = "Range" =>
            /\ evaluatorCovers(items[i].designators[k].low)
            /\ evaluatorCovers(items[i].designators[k].high)

\* parseInitializer runs as a machine, so that its calls of
\* parseAssignmentExpr are one: p is the parser, mode the place in the code,
\* n the initializer that the call that has just returned gave, and frames
\* the calls of parseInitializer that are in a braced list, innermost last,
\* each with its items, the designators of the item at hand and the low
\* bound of a range whose high bound is being read.
InitFrame == [items |-> <<>>, designators |-> <<>>, low |-> <<>>]

topFrame(m) == m.frames[Len(m.frames)]

withTop(m, frame) == [m EXCEPT !.frames[Len(m.frames)] = frame]

\* the places where parseAssignmentExpr() is called: the initializer without
\* a brace, the index or low bound, and the high bound
needsExpr(m) ==
    \/ m.mode = "init" /\ peek(m.p) # "LBrace"
    \/ m.mode \in {"index", "high"}

\* after parseAssignmentExpr() gave e
initAfterExpr(e, m) ==
    IF e.p.hung THEN [m EXCEPT !.p = e.p, !.n = e.n, !.mode = "done"]
    ELSE CASE m.mode = "init" ->
                  [m EXCEPT !.p = e.p, !.n = [kind |-> "Expr", expr |-> e.n],
                            !.mode = "return"]
           [] m.mode = "index" ->
                  IF peek(e.p) = "Ellipsis"
                  THEN [withTop(m, [topFrame(m) EXCEPT !.low = <<e.n>>])
                            EXCEPT !.p = advance(e.p), !.mode = "high"]
                  ELSE [withTop(m, [topFrame(m) EXCEPT
                                       !.designators = Append(@, IndexDesignator(e.n))])
                            EXCEPT !.p = expectClosing(e.p, "RBracket").p,
                                   !.mode = "designators"]
           [] m.mode = "high" ->
                  [withTop(m, [topFrame(m) EXCEPT
                                  !.designators =
                                      Append(@, RangeDesignator(topFrame(m).low[1], e.n)),
                                  !.low = <<>>])
                       EXCEPT !.p = expectClosing(e.p, "RBracket").p,
                              !.mode = "designators"]

\* the item before its initializer: the old-style field: value when there is
\* no designator, then the '=' when there is one
initBeforeValue(m) ==
    LET oldStyle == /\ topFrame(m).designators = <<>>
                    /\ peek(m.p) = "Identifier"
                    /\ m.p.pos + 1 < Len(tokens)
                    /\ peekKindAt(m.p, 1) = "Colon"
        ds == IF oldStyle THEN <<FieldDesignator(peekValue(m.p))>>
              ELSE topFrame(m).designators
        p1 == IF oldStyle THEN advance(advance(m.p)) ELSE m.p
    IN  [withTop(m, [topFrame(m) EXCEPT !.designators = ds])
            EXCEPT !.p = IF ds # <<>> THEN consumeIf(p1, "Assign").p ELSE p1,
                   !.mode = "init"]

\* expectClosing(RBrace) and the expansion of the ranges: the list is the
\* initializer that this call returns
initClose(m) ==
    LET p1 == expectClosing(m.p, "RBrace").p
    IN  [m EXCEPT !.p = IF rangeBoundsCovered(topFrame(m).items) THEN p1
                        ELSE logUnmodelled(p1, "constant expression"),
                  !.n = [kind |-> "List",
                         items |-> expandRangeDesignators(topFrame(m).items,
                                                          m.p.enumConstants)],
                  !.frames = SubSeq(@, 1, Len(@) - 1),
                  !.mode = "return"]

\* a call of parseInitializer has returned m.n: the outermost one ends the
\* run, another one gave the initializer of an item of the list around it
initReturn(m) ==
    IF m.frames = <<>> THEN [m EXCEPT !.mode = "done"]
    ELSE LET pushed == [topFrame(m) EXCEPT
                           !.items = Append(@, [designators |-> topFrame(m).designators,
                                                init |-> m.n])]
         IN  IF consumeIf(m.p, "Comma").ok
             THEN [withTop(m, pushed) EXCEPT !.p = consumeIf(m.p, "Comma").p,
                                             !.mode = "items"]
             ELSE [withTop(m, pushed) EXCEPT !.mode = "close"]

\* one step of parseInitializer where no expression is read
initStep(m) ==
    CASE m.mode = "init" ->
             [m EXCEPT !.p = advance(m.p), !.frames = Append(@, InitFrame),
                       !.mode = "items"]
      [] m.mode = "items" ->
             IF peek(m.p) # "RBrace" /\ ~atEof(m.p)
             THEN [withTop(m, [topFrame(m) EXCEPT !.designators = <<>>])
                      EXCEPT !.mode = "designators"]
             ELSE [m EXCEPT !.mode = "close"]
      [] m.mode = "designators" ->
             IF peek(m.p) = "LBracket" THEN [m EXCEPT !.p = advance(m.p), !.mode = "index"]
             ELSE IF peek(m.p) = "Dot"
             THEN IF peek(advance(m.p)) = "Identifier"
                  THEN [withTop(m, [topFrame(m) EXCEPT
                                       !.designators =
                                           Append(@, FieldDesignator(peekValue(advance(m.p))))])
                           EXCEPT !.p = advance(advance(m.p))]
                  ELSE [m EXCEPT !.p = advance(advance(m.p))]
             ELSE [m EXCEPT !.mode = "value"]
      [] m.mode = "value" -> initBeforeValue(m)
      [] m.mode = "close" -> initClose(m)
      [] m.mode = "return" -> initReturn(m)

RECURSIVE initRun(_)
initRun(m) ==
    IF m.mode = "done" THEN [p |-> m.p, n |-> m.n]
    ELSE IF needsExpr(m) THEN initRun(initAfterExpr(parseAssignmentExpr(m.p), m))
    ELSE initRun(initStep(m))

parseInitializerBody(p) == initRun([p |-> p, mode |-> "init", n |-> null, frames |-> <<>>])

\* the initializer i as the optional init of a declarator
initOf(i) ==
    IF i.p.hung THEN [p |-> i.p, has |-> FALSE, n |-> null]
    ELSE [p |-> i.p, has |-> TRUE, n |-> i.n]

\* consumeIf(Assign) ? parseInitializer() : null
optInit(p) ==
    IF consumeIf(p, "Assign").ok THEN initOf(parseInitializer(consumeIf(p, "Assign").p))
    ELSE [p |-> p, has |-> FALSE, n |-> null]

\* i is the result of optInit; a null init is a field left out
InitDeclarator(name, derived, i, isNoreturn, span) ==
    LET d == [type |-> "InitDeclarator", name |-> name, derived |-> derived,
              attrs |-> [isNoreturn |-> isNoreturn],
              start |-> span.start, end |-> span.end, loc |-> LOC]
    IN  IF i.has THEN d @@ [init |-> i.n] ELSE d

Declaration(typeSpec, declarators, isStatic, isExtern, isTypedef, isConst, start, end) ==
    [type |-> "Declaration", typeSpec |-> typeSpec, declarators |-> declarators,
     isStatic |-> isStatic, isExtern |-> isExtern, isTypedef |-> isTypedef,
     isConst |-> isConst, start |-> start, end |-> end, loc |-> LOC]

\* the flags that parseDeclarationRest clears after each declarator
resetDeclFlags(p) == setAttrFlag(p, ATTR_NORETURN, FALSE)

RECURSIVE restDeclarators(_, _, _)

\* a further declarator d after its initializer i
restAfterInit(d, dNoreturn, i, declarators, startPos) ==
    IF i.p.hung THEN [p |-> i.p, declarators |-> declarators]
    ELSE restDeclarators(parseGccAttributes(i.p),
                         Append(declarators,
                                InitDeclarator(d.name, d.derived, i, dNoreturn, startPos)),
                         startPos)

\* a further declarator d after its attributes, which left the state p1
restAfterAttrs(d, p1, declarators, startPos) ==
    restAfterInit(d, getAttrFlag(p1, ATTR_NORETURN), optInit(resetDeclFlags(p1)),
                  declarators, startPos)

\* a further declarator d
restAfterDeclarator(d, declarators, startPos) ==
    restAfterAttrs(d, parseGccAttributes(d.p), declarators, startPos)

\* while (consumeIf(Comma)) { ... declarators.push(...) } of parseDeclarationRest
restDeclarators(p0, declarators, startPos) ==
    IF peek(p0) = "Comma"
    THEN restAfterDeclarator(parseDeclaratorWithAttrs(advance(p0)), declarators, startPos)
    ELSE [p |-> p0, declarators |-> declarators]

\* parseDeclarationRest after the semicolon; e is the result of expectAfter
declarationEnd(e, typeSpec, declarators, isTypedef, startPos) ==
    [p |-> e.p,
     n |-> Declaration(typeSpec, declarators,
                       getAttrFlag(e.p, ATTR_STATIC), getAttrFlag(e.p, ATTR_EXTERN),
                       isTypedef, getAttrFlag(e.p, ATTR_CONST),
                       startPos.start, e.span.end)]

\* parseDeclarationRest after the declarator list rest
declarationAfterRest(rest, typeSpec, startPos) ==
    IF rest.p.hung THEN [p |-> rest.p, n |-> null]
    ELSE declarationEnd(expectAfter(registerTypedefs(rest.p, rest.declarators),
                                    "Semicolon"),
                        typeSpec, rest.declarators, getAttrFlag(rest.p, ATTR_TYPEDEF),
                        startPos)

\* parseDeclarationRest after the attributes of the first declarator, which
\* left the state p1
declarationAfterAttrs(i, p1, typeSpec, name, derived, startPos, isNoreturn) ==
    declarationAfterRest(
        restDeclarators(resetDeclFlags(p1),
                        <<InitDeclarator(name, derived, i,
                                         isNoreturn \/ getAttrFlag(p1, ATTR_NORETURN),
                                         startPos)>>,
                        startPos),
        typeSpec, startPos)

\* parseDeclarationRest after the initializer i of the first declarator
declarationAfterInit(i, typeSpec, name, derived, startPos, isNoreturn) ==
    IF i.p.hung THEN [p |-> i.p, n |-> null]
    ELSE declarationAfterAttrs(i, parseGccAttributes(i.p), typeSpec, name, derived,
                               startPos, isNoreturn)

parseDeclarationRest(p0, typeSpec, name, derived, startPos, isNoreturn) ==
    declarationAfterInit(optInit(p0), typeSpec, name, derived, startPos, isNoreturn)

\* history: a scope was left.  entry is the shadowed set on entry, inside the
\* set just before the restore, exit the set after it.
logScope(p, kind, at, entry, inside) ==
    [p EXCEPT !.log = @ \cup {[op |-> "scope", kind |-> kind, at |-> at, entry |-> entry,
                                inside |-> inside, exit |-> p.shadowedTypedefs,
                                typedefsAtExit |-> p.typedefs]}]

\* history: the compound statement that opens at token at was entered
logEnter(p, at) ==
    [p EXCEPT !.log = @ \cup {[op |-> "enter", at |-> at, typedefs |-> p.typedefs,
                                flags |-> p.flags]}]

\* history: the compound statement that opens at token at was left; inside
\* is the flag register before the restore
logLeave(p, at, inside) ==
    [p EXCEPT !.log = @ \cup {[op |-> "leave", at |-> at, flagsInside |-> inside,
                                flagsAtExit |-> p.flags]}]

\* history: a declaration was begun at token at; typedefName is the typedef
\* name it begins with ("" when it begins otherwise) and typeSpec the type
\* specifier parsed for it
logDecl(p, at, typedefName, typeSpec) ==
    [p EXCEPT !.log = @ \cup {[op |-> "decl", at |-> at, typedefName |-> typedefName,
                                typeSpec |-> typeSpec]}]

\* the typedef name under the cursor, if there is one
typedefNameAt(p) ==
    IF peek(p) = "Identifier" /\ isTypedefName(p, peekValue(p)) THEN peekValue(p) ELSE ""

\* restoreShadowed with the assignment left out, which ShadowRestoredOnExit
\* must detect
keepShadowed(p, savedShadowed) == p

\* this.shadowedTypedefs = savedShadowed
restoreShadowed(p, savedShadowed) == [p EXCEPT !.shadowedTypedefs = savedShadowed]

\* the index of the first Function declarator, 0 when there is none
funcPosOf(derived) ==
    IF "Function" \in kindsOf(derived)
    THEN CHOOSE i \in DOMAIN derived :
            /\ derived[i].kind = "Function"
            /\ \A j \in 1..(i - 1) : derived[j].kind # "Function"
    ELSE 0

\* the number of leading Pointer declarators
RECURSIVE leadingPointers(_)
leadingPointers(derived) ==
    IF derived # <<>> /\ Head(derived).kind = "Pointer"
    THEN 1 + leadingPointers(Tail(derived)) ELSE 0

buildReturnType(baseType, derived) ==
    IF funcPosOf(derived) > 0
    THEN bareWrapPointers(baseType, countKind(derived, "Pointer"))
    ELSE bareWrapPointers(baseType, leadingPointers(derived))

\* the index of the first FunctionPointer declarator
fptrPosOf(pderived) ==
    CHOOSE i \in DOMAIN pderived :
        /\ pderived[i].kind = "FunctionPointer"
        /\ \A j \in 1..(i - 1) : pderived[j].kind # "FunctionPointer"

\* [fullType, fptrParams]; fptrParams null is has = FALSE
applyKrDerivations(typeSpec, pderived) ==
    IF "FunctionPointer" \in kindsOf(pderived)
    THEN [fullType |-> bareWrapPointers(typeSpec,
                           Max(0, countKind(pderived, "Pointer") - 1) + 1),
          has |-> TRUE, fptrParams |-> pderived[fptrPosOf(pderived)].params]
    ELSE [fullType |-> bareWrapPointers(typeSpec,
                           countKind(pderived, "Pointer") + countKind(pderived, "Function")),
          has |-> FALSE, fptrParams |-> <<>>]

\* 1 + the number of Pointer declarators after the first function declarator
krInnerDepth(pderived) ==
    1 + Cardinality({i \in DOMAIN pderived :
            /\ pderived[i].kind = "Pointer"
            /\ \E j \in 1..(i - 1) : pderived[j].kind \in {"FunctionPointer", "Function"}})

\* the record r without field f
without(r, f) == [g \in DOMAIN r \ {f} |-> r[g]]

\* the assignments to result[k] from kd, the result of applyKrDerivations
krAssign(result, k, kd, innerDepth) ==
    [result EXCEPT ![k] =
        IF kd.has
        THEN [without(result[k], "fptrParams") EXCEPT
                 !.typeSpec = kd.fullType, !.fptrInnerPtrDepth = innerDepth]
             @@ [fptrParams |-> kd.fptrParams]
        ELSE [without(result[k], "fptrParams") EXCEPT
                 !.typeSpec = kd.fullType, !.fptrInnerPtrDepth = 0]]

\* the assignments to the first parameter called pname, if there is one
krUpdate(result, pname, ts, pderived) ==
    IF \A i \in DOMAIN result : result[i].name # pname THEN result
    ELSE krAssign(result,
                  CHOOSE i \in DOMAIN result :
                      /\ result[i].name = pname
                      /\ \A j \in 1..(i - 1) : result[j].name # pname,
                  applyKrDerivations(ts, pderived), krInnerDepth(pderived))

RECURSIVE krDeclarators(_, _, _)

\* the inner loop of parseKrParams after the declarator d; r is the
\* parameter list with d applied
krNext(d, ts, r) ==
    IF peek(d.p) = "Comma" THEN krDeclarators(advance(d.p), ts, r)
    ELSE [p |-> d.p, params |-> r]

\* the inner loop of parseKrParams after the declarator d
krAfterDeclarator(d, ts, result) ==
    krNext(d, ts, IF d.name # NoName THEN krUpdate(result, d.name, ts, d.derived)
                  ELSE result)

\* the inner for (;;) loop of parseKrParams
krDeclarators(p0, ts, result) ==
    krAfterDeclarator(parseDeclaratorWithAttrs(p0), ts, result)

RECURSIVE parseKrParams(_, _)

\* parseKrParams after the declarators ds of a parameter declaration
krAfterDeclarators(ds) == parseKrParams(expectAfter(ds.p, "Semicolon").p, ds.params)

\* parseKrParams after the type specifier t of a parameter declaration
krAfterType(t, result) ==
    IF t.n = null THEN [p |-> t.p, params |-> result]
    ELSE krAfterDeclarators(krDeclarators(t.p, t.n, result))

parseKrParams(p0, result) ==
    IF isTypeSpecifier(p0) /\ peek(p0) # "LBrace"
    THEN krAfterType(parseTypeSpecifier(p0), result)
    ELSE [p |-> p0, params |-> result]

\* the names of the parameters that have one
paramNames(params) == {params[i].name : i \in DOMAIN params} \ {NoName}

\* parseFunctionDef after the body; kr is the result of the K&R parameter
\* declarations and savedShadowed the shadowed set saved before the body
functionNode(body, kr, savedShadowed, at, typeSpec, name, derived, startPos, isNoreturn, isKrStyle) ==
    IF body.p.hung THEN [p |-> body.p, n |-> null]
    ELSE [p |-> logScope(restoreShadowed(body.p, savedShadowed), "function", at,
                         savedShadowed, body.p.shadowedTypedefs),
          n |-> [type |-> "FunctionDefinition",
                 returnType |-> buildReturnType(typeSpec, derived),
                 name |-> name, params |-> kr.params,
                 variadic |-> derived[Len(derived)].variadic,
                 body |-> body.n,
                 attrs |-> [isStatic |-> getAttrFlag(kr.p, ATTR_STATIC),
                            isInline |-> getAttrFlag(kr.p, ATTR_INLINE),
                            isExtern |-> getAttrFlag(kr.p, ATTR_EXTERN),
                            isNoreturn |-> isNoreturn],
                 isKr |-> isKrStyle,
                 start |-> startPos.start, end |-> startPos.end, loc |-> LOC]]

\* the state in which the body of a function is parsed: the parameter names
\* that are typedef names are shadowed and the noreturn flag is cleared
bodyState(q, params) ==
    setAttrFlag([q EXCEPT !.shadowedTypedefs = @ \cup (paramNames(params) \cap q.typedefs)],
                ATTR_NORETURN, FALSE)

\* parseFunctionDef after the K&R parameter declarations kr
functionAfterKr(kr, at, typeSpec, name, derived, startPos, isNoreturn, isKrStyle) ==
    IF kr.p.hung THEN [p |-> kr.p, n |-> null]
    ELSE functionNode(parseCompoundStmt(bodyState(kr.p, kr.params)), kr,
                      kr.p.shadowedTypedefs, at, typeSpec, name, derived, startPos,
                      isNoreturn, isKrStyle)

parseFunctionDef(p0, typeSpec, name, derived, startPos, isNoreturn) ==
    functionAfterKr(IF peek(p0) # "LBrace"
                    THEN parseKrParams(setAttrFlag(p0, ATTR_TYPEDEF, FALSE),
                                       derived[Len(derived)].params)
                    ELSE [p |-> setAttrFlag(p0, ATTR_TYPEDEF, FALSE),
                          params |-> derived[Len(derived)].params],
                    p0.pos, typeSpec, name, derived, startPos, isNoreturn,
                    peek(p0) # "LBrace")

\* declarator.derived ends in a Function declarator and a body or a K&R
\* parameter declaration follows
isFuncdef(derived, p4) ==
    /\ Len(derived) > 0
    /\ derived[Len(derived)].kind = "Function"
    /\ (peek(p4) = "LBrace" \/ isTypeSpecifier(p4))

\* parseExternalDecl after the attributes of the first declarator d, which
\* left the state p4
externalAfterAttrs(d, p4, typeSpec, start) ==
    IF isFuncdef(d.derived, p4)
    THEN parseFunctionDef(p4, typeSpec, d.name, d.derived, start,
                          getAttrFlag(p4, ATTR_NORETURN))
    ELSE parseDeclarationRest(p4, typeSpec, d.name, d.derived, start,
                              getAttrFlag(p4, ATTR_NORETURN))

\* parseExternalDecl after the first declarator d
externalAfterDeclarator(d, typeSpec, start) ==
    externalAfterAttrs(d, parseGccAttributes(d.p), typeSpec, start)

\* parseExternalDecl after consumePostTypeQualifiers, which left the state p3
externalAfterQualifiers(p3, typeSpec, start) ==
    IF p3.hung THEN [p |-> p3, n |-> null]
    ELSE externalAfterDeclarator(parseDeclaratorWithAttrs(p3), typeSpec, start)

\* a declaration without declarators; e is the result of expectAfter
emptyDeclaration(e, typeSpec, start) ==
    [p |-> e.p,
     n |-> Declaration(typeSpec, <<>>,
                       getAttrFlag(e.p, ATTR_STATIC), getAttrFlag(e.p, ATTR_EXTERN),
                       getAttrFlag(e.p, ATTR_TYPEDEF), getAttrFlag(e.p, ATTR_CONST),
                       start.start, e.span.end)]

\* parseExternalDecl after the type specifier, whose node is n (null when
\* there is none) and which left the state p2
externalAfterType(n, p2, start) ==
    IF n = null /\ ~(peek(p2) = "Identifier" /\ peekKindAt(p2, 1) = "LParen")
    THEN [p |-> p2, n |-> null]
    ELSE IF peek(p2) = "Semicolon"
    THEN emptyDeclaration(expectAfter(p2, "Semicolon"),
                          IF n # null THEN n ELSE [type |-> "IntType"], start)
    ELSE IF atEof(p2)
    THEN emptyDeclaration([p |-> p2, span |-> start],
                          IF n # null THEN n ELSE [type |-> "IntType"], start)
    ELSE externalAfterQualifiers(consumePostTypeQualifiers(p2),
                                 IF n # null THEN n ELSE [type |-> "IntType"], start)

\* parseExternalDecl from the type specifier on; p1 is the state before it
\* and t its result
externalFromType(t, p1) ==
    externalAfterType(t.n, logDecl(t.p, p1.pos, typedefNameAt(p1), t.n), peekSpan(p1))

\* emptyDeclaration(span) of part_009: span?.start ?? 0 and span?.end ?? 0
\* are the fields of NoSpan when no span is passed
NoSpan == [start |-> 0, end |-> 0]

emptyDeclarationOf(span) ==
    Declaration([type |-> "VoidType"], <<>>, FALSE, FALSE, FALSE, FALSE,
                span.start, span.end)

\* parseStaticAssert with an error for a condition that cannot be evaluated
\* as well, which ZeroConditionIsTheError must detect
staticAssertEndStrict(close, condExpr, begin) ==
    [p |-> IF evalConstIntExprOfModule(condExpr, close.p.enumConstants) \in {NoValue, <<0>>}
           THEN emitError(close.p) ELSE close.p,
     span |-> begin]

\* while (this.peek() === TokenKind.StringLiteral) of parseStaticAssert
RECURSIVE skipStringLiterals(_)
skipStringLiterals(p) ==
    IF peek(p) = "StringLiteral" THEN skipStringLiterals(advance(p)) ELSE p

\* parseStaticAssert after the closing parenthesis; close is the result of
\* expectClosing
staticAssertEnd(close, condExpr, begin) ==
    LET semi == peek(close.p) = "Semicolon"
        p1   == IF semi THEN advance(close.p) ELSE close.p
        end  == IF semi THEN peekSpan(close.p).end ELSE close.span.end
        val  == evalConstIntExprOfModule(condExpr, p1.enumConstants)
        p2   == IF val = <<0>> THEN emitError(p1) ELSE p1
        p3   == IF evaluatorCovers(condExpr)
                THEN p2 ELSE logUnmodelled(p2, "constant expression")
    IN  [p |-> p3, span |-> [start |-> begin.start, end |-> end]]

\* parseStaticAssert after the condition c
staticAssertAfterCond(c, begin) ==
    IF c.p.hung THEN [p |-> c.p, span |-> begin]
    ELSE staticAssertEnd(
             expectClosing(IF peek(c.p) = "Comma"
                           THEN skipStringLiterals(advance(c.p)) ELSE c.p,
                           "RParen"),
             c.n, begin)

parseStaticAssert(p0) ==
    staticAssertAfterCond(
        parseAssignmentExpr(expectContext(advance(p0), "LParen").p), peekSpan(p0))

\* the for (;;) loop of the top-level asm directive: the string literals up
\* to the closing parenthesis are concatenated, everything else is skipped
RECURSIVE asmStrings(_, _)
asmStrings(p, asmStr) ==
    IF peek(p) = "StringLiteral" THEN asmStrings(advance(p), asmStr \o peekValue(p))
    ELSE IF peek(p) \in {"RParen", "Eof"} THEN [p |-> p, asmStr |-> asmStr]
    ELSE asmStrings(advance(p), asmStr)

\* the top-level asm directive after the loop, whose result is r
topLevelAsmEnd(r) ==
    LET p1 == IF peek(r.p) = "RParen" THEN advance(r.p) ELSE r.p
        p2 == consumeIf(p1, "Semicolon").p
    IN  IF Len(r.asmStr) > 0
        THEN [p |-> p2,
              n |-> [type |-> "TopLevelAsm", asm |-> r.asmStr,
                     start |-> peekSpan(p2).start, end |-> peekSpan(p2).end,
                     loc |-> LOC]]
        ELSE [p |-> p2, n |-> emptyDeclarationOf(NoSpan)]

\* the top-level asm directive; p1 is the state at the asm token
topLevelAsm(p1) ==
    LET p2 == consumeIf(advance(p1), "Volatile").p
    IN  IF peek(p2) = "LParen" THEN topLevelAsmEnd(asmStrings(advance(p2), <<>>))
        ELSE [p |-> consumeIf(p2, "Semicolon").p, n |-> emptyDeclarationOf(NoSpan)]

\* the _Static_assert of parseExternalDecl; s is the result of
\* parseStaticAssert
topLevelStaticAssert(s) ==
    IF s.p.hung THEN [p |-> s.p, n |-> null]
    ELSE [p |-> s.p, n |-> emptyDeclarationOf(s.span)]

\* parseExternalDecl after the two pragma loops; the scanner of the model
\* makes no visibility token
externalFrom(p1) ==
    IF atEof(p1) THEN [p |-> p1, n |-> null]
    ELSE IF peek(p1) = "Asm" THEN topLevelAsm(p1)
    ELSE IF peek(p1) = "StaticAssert" THEN topLevelStaticAssert(parseStaticAssert(p1))
    ELSE externalFromType(parseTypeSpecifier(p1), p1)

parseExternalDecl(p0) ==
    externalFrom(skipPragmaPack(skipGccExtensions([p0 EXCEPT !.flags = 0])))

\* the flags that parseLocalDeclaration clears on entry
clearLocalFlags(p) ==
    setAttrFlag(setAttrFlag(setAttrFlag(setAttrFlag(setAttrFlag(setAttrFlag(setAttrFlag(
        p, ATTR_STATIC, FALSE), ATTR_EXTERN, FALSE), ATTR_TYPEDEF, FALSE),
        ATTR_INLINE, FALSE), ATTR_THREAD_LOCAL, FALSE), ATTR_CONST, FALSE),
        ATTR_VOLATILE, FALSE)

RECURSIVE localDeclarators(_, _, _)

\* the declarator loop after the attributes that follow a declarator, which
\* left the state q; ds is the list with that declarator
localNext(q, ds, start) ==
    IF peek(q) = "Comma" THEN localDeclarators(advance(q), ds, start)
    ELSE [p |-> q, declarators |-> ds]

\* the declarator loop after the initializer i of the declarator d
localAfterInit(d, i, declarators, start) ==
    IF i.p.hung THEN [p |-> i.p, declarators |-> declarators]
    ELSE localNext(parseGccAttributes(i.p),
                   Append(declarators,
                          InitDeclarator(d.name, d.derived, i,
                                         getAttrFlag(i.p, ATTR_NORETURN), start)),
                   start)

\* the declarator loop after the declarator d
localAfterDeclarator(d, declarators, start) ==
    localAfterInit(d, optInit(parseGccAttributes(d.p)), declarators, start)

\* the for (;;) loop over declarators of parseLocalDeclaration
localDeclarators(p0, declarators, start) ==
    localAfterDeclarator(parseDeclaratorWithAttrs(p0), declarators, start)

\* "Register typedef names or shadow them" of parseLocalDeclaration
registerOrShadow(p, declarators) ==
    IF getAttrFlag(p, ATTR_TYPEDEF)
    THEN setAttrFlag([p EXCEPT !.typedefs = @ \cup declaredNames(declarators),
                               !.shadowedTypedefs = @ \ declaredNames(declarators)],
                     ATTR_TYPEDEF, FALSE)
    ELSE [p EXCEPT !.shadowedTypedefs = @ \cup (declaredNames(declarators) \cap p.typedefs)]

\* parseLocalDeclaration after the semicolon; e is the result of expectAfter
localEnd(e, typeSpec, declarators, p3, isTypedef, start, savedFlags) ==
    [p |-> restoreAttrFlags(e.p, savedFlags),
     n |-> Declaration(typeSpec, declarators,
                       getAttrFlag(p3, ATTR_STATIC), getAttrFlag(p3, ATTR_EXTERN),
                       isTypedef, getAttrFlag(e.p, ATTR_CONST),
                       start.start, e.span.end)]

\* parseLocalDeclaration after the declarator list ds
localAfterDeclarators(ds, typeSpec, p3, start, savedFlags) ==
    IF ds.p.hung THEN [p |-> ds.p, n |-> null]
    ELSE localEnd(expectAfter(registerOrShadow(ds.p, ds.declarators), "Semicolon"),
                  typeSpec, ds.declarators, p3, getAttrFlag(ds.p, ATTR_TYPEDEF),
                  start, savedFlags)

\* parseLocalDeclaration after consumePostTypeQualifiers, which left p3
localAfterQualifiers(p3, typeSpec, start, savedFlags) ==
    IF p3.hung THEN [p |-> p3, n |-> null]
    ELSE localAfterDeclarators(localDeclarators(p3, <<>>, start), typeSpec, p3, start,
                               savedFlags)

\* parseLocalDeclaration after the type specifier, whose node is typeSpec
\* and which left the state p2
localAfterType(typeSpec, p2, start, savedFlags) ==
    IF typeSpec = null THEN [p |-> restoreAttrFlags(p2, savedFlags), n |-> null]
    ELSE IF peek(p2) = "Semicolon"
    THEN [p |-> restoreAttrFlags(advance(p2), savedFlags),
          n |-> Declaration(typeSpec, <<>>,
                    getAttrFlag(p2, ATTR_STATIC), getAttrFlag(p2, ATTR_EXTERN),
                    getAttrFlag(p2, ATTR_TYPEDEF), getAttrFlag(p2, ATTR_CONST),
                    start.start, peekSpan(p2).end)]
    ELSE localAfterQualifiers(consumePostTypeQualifiers(p2), typeSpec, start, savedFlags)

\* parseLocalDeclaration from the type specifier on; p1 is the state before
\* it and t its result
localFromType(t, p1, savedFlags) ==
    localAfterType(t.n, logDecl(t.p, p1.pos, typedefNameAt(p1), t.n), peekSpan(p1),
                   savedFlags)

\* parseLocalDeclaration after the flags are saved and cleared
localFrom(p1, savedFlags) ==
    IF peek(p1) = "StaticAssert"
    THEN [p |-> logUnmodelled(p1, "_Static_assert"), n |-> null]
    ELSE localFromType(parseTypeSpecifier(p1), p1, savedFlags)

parseLocalDeclarationBody(p0) ==
    localFrom(skipGccExtensions(clearLocalFlags(p0)), saveAttrFlags(p0))

-----------------------------------------------------------------------------
(* Statements (statements.ts)                                              *)

\* the loop of parseCompoundStmt after the declaration d
blockAfterDeclaration(d, items) ==
    IF d.p.hung THEN [p |-> d.p, items |-> items]
    ELSE blockItems(d.p, IF d.n # null THEN Append(items, d.n) ELSE items)

\* the loop of parseCompoundStmt after the statement st
blockAfterStmt(st, items) ==
    IF st.p.hung THEN [p |-> st.p, items |-> items]
    ELSE blockItems(st.p, Append(items, st.n))

\* one iteration of the loop after skipGccExtensions, which left p1
blockItem(p1, items) ==
    IF peek(p1) \in {"RBrace", "Eof"} THEN [p |-> p1, items |-> items]
    ELSE IF peek(p1) \in {"GnuLabel", "StaticAssert"}
    THEN [p |-> logUnmodelled(p1, "block item"), items |-> items]
    ELSE IF isTypeSpecifier(p1) /\ ~isTypedefLabel(p1)
    THEN blockAfterDeclaration(parseLocalDeclaration(p1), items)
    ELSE blockAfterStmt(parseStmt(p1), items)

\* the main while loop of parseCompoundStmt
blockItems(p0, items) ==
    IF peek(p0) \in {"RBrace", "Eof"} THEN [p |-> p0, items |-> items]
    ELSE blockItem(skipPragmaPack(skipGccExtensions(p0)), items)

\* parseCompoundStmt after the closing brace, which left the state p2
compoundEnd(p2, items, at, open, savedShadowed, savedAttrFlags) ==
    [p |-> logScope(logLeave(restoreAttrFlags(restoreShadowed(p2, savedShadowed),
                                              savedAttrFlags),
                             at, p2.flags),
                    "compound", at, savedShadowed, p2.shadowedTypedefs),
     n |-> [type |-> "CompoundStatement", items |-> items, localLabels |-> <<>>,
            start |-> open.start, end |-> open.end, loc |-> LOC]]

\* parseCompoundStmt after the block items b
compoundAfterItems(b, at, open, savedShadowed, savedAttrFlags) ==
    IF b.p.hung THEN [p |-> b.p, n |-> null]
    ELSE compoundEnd(expectClosing(b.p, "RBrace").p, b.items, at, open, savedShadowed,
                     savedAttrFlags)

\* parseCompoundStmt after the opening brace, which left the state p1
compoundFrom(p1, at, open) ==
    compoundAfterItems(blockItems(logEnter(p1, at), <<>>), at, open, p1.shadowedTypedefs,
                       saveAttrFlags(p1))

parseCompoundStmtBody(p0) == compoundFrom(expect(p0, "LBrace").p, p0.pos, peekSpan(p0))

\* a statement node; a null expr is a field left out
StmtNode(fields, start, end) == fields @@ [start |-> start, end |-> end, loc |-> LOC]

\* the ExpressionStatement over the expression e
exprStmtNode(e, span) ==
    IF e.p.hung THEN e
    ELSE [p |-> expectAfter(e.p, "Semicolon").p,
          n |-> StmtNode([type |-> "ExpressionStatement", expr |-> e.n],
                         span.start, span.end)]

\* parseExpr(), expectAfter(Semicolon) and the ExpressionStatement over them
exprStmt(p) == exprStmtNode(parseExpr(p), peekSpan(p))

\* the statement over the local declaration d
declarationStmt(d) ==
    IF d.p.hung THEN d
    ELSE IF d.n # null
    THEN [p |-> d.p,
          n |-> StmtNode([type |-> "DeclarationStatement", declaration |-> d.n],
                         d.n.start, d.n.end)]
    ELSE [p |-> d.p, n |-> StmtNode([type |-> "ExpressionStatement"], 0, 0)]

\* the return statement over its optional expression e
returnStmt(e, span) ==
    IF e.p.hung THEN e
    ELSE [p |-> expectAfter(e.p, "Semicolon").p,
          n |-> StmtNode(IF e.n # null THEN [type |-> "ReturnStatement", expr |-> e.n]
                         ELSE [type |-> "ReturnStatement"],
                         span.start, span.end)]

\* an expression where the grammar has an optional one that ends at a token
\* of kind closer
optExpr(p, closer) ==
    IF peek(p) # closer THEN parseExpr(p) ELSE [p |-> p, n |-> null]

\* parseStmt after skipGccExtensions, which left the state p1
stmtFrom(p1) ==
    LET k    == peek(p1)
        span == peekSpan(p1)
    IN  IF isTypeSpecifier(p1) /\ ~isTypedefLabel(p1)
        THEN declarationStmt(parseLocalDeclaration(p1))
        ELSE
        CASE k = "Return" -> returnStmt(optExpr(advance(p1), "Semicolon"), span)
          [] k = "For" -> parseForStmt(p1)
          [] k = "LBrace" -> parseCompoundStmt(p1)
          [] k = "Semicolon" ->
                [p |-> advance(p1),
                 n |-> StmtNode([type |-> "ExpressionStatement"], span.start, span.end)]
          [] k = "Identifier" /\ peekKindAt(p1, 1) = "Colon" ->
                [p |-> logUnmodelled(advance(advance(p1)), "label"),
                 n |-> StmtNode([type |-> "LabelStatement", label |-> peekValue(p1)],
                                span.start, span.end)]
          [] k \in {"If", "While", "Do", "Break", "Continue", "Switch", "Case",
                    "Default", "Goto", "Asm"} ->
                [p |-> logUnmodelled(advance(p1), "statement"),
                 n |-> StmtNode([type |-> "ExpressionStatement"], span.start, span.end)]
          [] OTHER -> exprStmt(p1)

parseStmtBody(p0) == stmtFrom(skipGccExtensions(p0))

\* the init clause of a for statement that is a declaration d
forInitDeclaration(d) ==
    [p |-> d.p, has |-> d.n # null, n |-> [kind |-> "Declaration", declaration |-> d.n]]

\* the init clause of a for statement that is an expression e
forInitExpr(e) ==
    IF e.p.hung THEN [p |-> e.p, has |-> FALSE, n |-> null]
    ELSE [p |-> expectAfter(e.p, "Semicolon").p, has |-> TRUE,
          n |-> [kind |-> "Expression", expr |-> e.n]]

\* the init clause of a for statement
forInit(p1) ==
    IF peek(p1) = "Semicolon" THEN [p |-> advance(p1), has |-> FALSE, n |-> null]
    ELSE IF isTypeSpecifier(p1) /\ ~isTypedefLabel(p1)
    THEN forInitDeclaration(parseLocalDeclaration(p1))
    ELSE forInitExpr(parseExpr(p1))

\* the fields of a ForStatement; a null clause is a field left out
forFields(init, cond, upd, body) ==
    [type |-> "ForStatement", body |-> body.n]
    @@ (IF init.has THEN [init |-> init.n] ELSE <<>>)
    @@ (IF cond.n # null THEN [condition |-> cond.n] ELSE <<>>)
    @@ (IF upd.n # null THEN [update |-> upd.n] ELSE <<>>)

\* parseForStmt after the body
forEnd(body, init, cond, upd, at, span, savedShadowed, savedAttrFlags) ==
    IF body.p.hung THEN [p |-> body.p, n |-> null]
    ELSE [p |-> logScope(restoreAttrFlags(restoreShadowed(body.p, savedShadowed),
                                          savedAttrFlags),
                         "for", at, savedShadowed, body.p.shadowedTypedefs),
          n |-> StmtNode(forFields(init, cond, upd, body), span.start, span.end)]

\* parseForStmt after the update clause upd
forAfterUpdate(upd, init, cond, at, span, savedShadowed, savedAttrFlags) ==
    IF upd.p.hung THEN [p |-> upd.p, n |-> null]
    ELSE forEnd(parseStmt(expectClosing(upd.p, "RParen").p), init, cond, upd, at, span,
                savedShadowed, savedAttrFlags)

\* parseForStmt after the condition cond
forAfterCondition(cond, init, at, span, savedShadowed, savedAttrFlags) ==
    IF cond.p.hung THEN [p |-> cond.p, n |-> null]
    ELSE forAfterUpdate(optExpr(expectAfter(cond.p, "Semicolon").p, "RParen"), init, cond,
                        at, span, savedShadowed, savedAttrFlags)

\* parseForStmt after the init clause init
forAfterInit(init, at, span, savedShadowed, savedAttrFlags) ==
    IF init.p.hung THEN [p |-> init.p, n |-> null]
    ELSE forAfterCondition(optExpr(init.p, "Semicolon"), init, at, span, savedShadowed,
                           savedAttrFlags)

\* parseForStmt after the opening parenthesis, which left the state p1
forFrom(p1, at, span) ==
    forAfterInit(forInit(p1), at, span, p1.shadowedTypedefs, saveAttrFlags(p1))

parseForStmt(p0) ==
    forFrom(expectContext(advance(p0), "LParen").p, p0.pos, peekSpan(p0))

-----------------------------------------------------------------------------
(* Location sweep (ast/locations.ts)                                       *)

\* offsets.push(i + 1) for every '\n' at offset i, from offset i on
RECURSIVE lineOffsetsFrom(_, _)
lineOffsetsFrom(src, i) ==
    IF i >= Len(src) THEN <<>>
    ELSE (IF chAt(src, i) = "\n" THEN <<i + 1>> ELSE <<>>) \o lineOffsetsFrom(src, i + 1)

buildLineOffsets(src) == <<0>> \o lineOffsetsFrom(src, 0)

clampOffset(offset, sourceLength) ==
    IF offset <= 0 THEN 0
    ELSE IF offset >= sourceLength THEN sourceLength
    ELSE offset

\* the binary search of positionFor; lo and hi are 0-based indices
RECURSIVE searchLine(_, _, _, _)
searchLine(lineOffsets, clamped, lo, hi) ==
    IF lo < hi
    THEN LET mid == (lo + hi + 1) \div 2
         IN  IF lineOffsets[mid + 1] <= clamped
             THEN searchLine(lineOffsets, clamped, mid, hi)
             ELSE searchLine(lineOffsets, clamped, lo, mid - 1)
    ELSE lo

\* positionFor with every offset put on the first line
positionForFirstLine(offset, lineOffsets, sourceLength) ==
    [line |-> 1, column |-> clampOffset(offset, sourceLength)]

positionFor(offset, lineOffsets, sourceLength) ==
    LET clamped == clampOffset(offset, sourceLength)
        lo      == searchLine(lineOffsets, clamped, 0, Len(lineOffsets) - 1)
    IN  [line |-> lo + 1, column |-> clamped - lineOffsets[lo + 1]]

\* typeof obj.type === 'string' && typeof obj.start === 'number' && typeof
\* obj.end === 'number'
isAstNodeLike(value) == {"type", "start", "end"} \subseteq DOMAIN value

\* the properties of the tree's objects whose value is an object
ObjectFields ==
    {"typeSpec", "returnType", "base", "body", "left", "right", "operand", "callee",
     "expr", "declaration", "init", "condition", "update", "argument", "nameNode",
     "low", "high", "index"}

\* the properties of the tree's objects whose value is an array of objects
ArrayFields ==
    {"decls", "declarators", "items", "args", "params", "derived", "fptrParams",
     "variants", "fields", "designators"}

\* the properties of the object v whose value is an object: the value of an
\* enum variant is an expression, the value of a literal is a number
objectFieldsOf(v) ==
    (DOMAIN v \cap ObjectFields)
    \cup (IF "value" \in DOMAIN v /\ "type" \notin DOMAIN v THEN {"value"} ELSE {})

\* the sweep of normalizeAstLocations over the objects reachable from
\* current: a node-like object gets its loc set or deleted, every object is
\* descended into
RECURSIVE sweep(_, _, _, _)
sweep(current, lineOffsets, sourceLength, includeLoc) ==
    LET fields == IF ~isAstNodeLike(current) THEN DOMAIN current
                  ELSE IF includeLoc THEN DOMAIN current \cup {"loc"}
                  ELSE DOMAIN current \ {"loc"}
    IN  [f \in fields |->
            IF f = "loc" /\ isAstNodeLike(current)
            THEN [start |-> positionFor(current.start, lineOffsets, sourceLength),
                  end   |-> positionFor(current.end, lineOffsets, sourceLength)]
            ELSE IF f \in objectFieldsOf(current)
            THEN sweep(current[f], lineOffsets, sourceLength, includeLoc)
            ELSE IF f \in ArrayFields
            THEN [i \in DOMAIN current[f] |->
                    sweep(current[f][i], lineOffsets, sourceLength, includeLoc)]
            ELSE current[f]]

normalizeAstLocations(root, src, includeLoc) ==
    sweep(root, IF includeLoc THEN buildLineOffsets(src) ELSE <<>>, Len(src), includeLoc)

-----------------------------------------------------------------------------
(* parse(source, options): index.ts in its two revisions                   *)

\* TranslationUnit with the end taken from the last declaration, which
\* TranslationUnitSpansSource must detect
TranslationUnitOverDecls(ds, src) ==
    [type |-> "TranslationUnit", decls |-> ds, start |-> 0,
     end |-> IF ds = <<>> THEN Len(src) ELSE ds[Len(ds)].end]

\* the object literal returned by parse
TranslationUnit(ds, src) ==
    [type |-> "TranslationUnit", decls |-> ds, start |-> 0, end |-> Len(src)]

\* one iteration after parseExternalDecl, which returned r
driverAfterDecl(r, ds) ==
    IF r.p.hung THEN [p |-> r.p, decls |-> ds]
    ELSE IF r.n # null THEN [p |-> r.p, decls |-> Append(ds, r.n)]
    ELSE [p |-> IF ~atEof(r.p) THEN advance(r.p) ELSE r.p, decls |-> ds]

\* while (!parser.atEof()) { ... }: one iteration
driverIterationBody(p, ds) == driverAfterDecl(parseExternalDecl(p), ds)

-----------------------------------------------------------------------------
(* The sources handed to parse                                             *)

\* the characters of a word of the sources
Spell(w) ==
    CASE w = "int" -> <<"i", "n", "t">>
      [] w = "void" -> <<"v", "o", "i", "d">>
      [] w = "typedef" -> <<"t", "y", "p", "e", "d", "e", "f">>
      [] w = "return" -> <<"r", "e", "t", "u", "r", "n">>
      [] w = "for" -> <<"f", "o", "r">>
      [] w = "T" -> <<"T">>
      [] w = "x" -> <<"x">>
      [] w = "y" -> <<"y">>
      [] w = "f" -> <<"f">>
      [] w = "g" -> <<"g">>
      [] w = "h" -> <<"h">>
      [] w = "p" -> <<"p">>
      [] w = "q" -> <<"q">>
      [] w = "1" -> <<"1">>
      [] w = "2" -> <<"2">>
      [] w = "3" -> <<"3">>
      [] w = "10" -> <<"1", "0">>
      [] w = "16" -> <<"1", "6">>
      [] w = "enum" -> <<"e", "n", "u", "m">>
      [] w = "U" -> <<"U">>
      [] w = "sizeof" -> <<"s", "i", "z", "e", "o", "f">>
      [] w = "volatile" -> <<"v", "o", "l", "a", "t", "i", "l", "e">>
      [] w = "static" -> <<"s", "t", "a", "t", "i", "c">>
      [] w = "const" -> <<"c", "o", "n", "s", "t">>
      [] w = "_Noreturn" -> <<"_", "N", "o", "r", "e", "t", "u", "r", "n">>
      [] w = "noreturn" -> <<"n", "o", "r", "e", "t", "u", "r", "n">>
      [] w = "__noreturn__" -> <<"_", "_", "n", "o", "r", "e", "t", "u", "r", "n", "_", "_">>
      [] w = "unused" -> <<"u", "n", "u", "s", "e", "d">>
      [] w = "!" -> <<"!">>
      [] w = "__ccc_pack_set_2" -> <<"_", "_", "c", "c", "c", "_", "p", "a", "c", "k", "_", "s", "e", "t", "_", "2">>
      [] w = "__ccc_pack_push_2" -> <<"_", "_", "c", "c", "c", "_", "p", "a", "c", "k", "_", "p", "u", "s", "h", "_", "2">>
      [] w = "__ccc_pack_pop" -> <<"_", "_", "c", "c", "c", "_", "p", "a", "c", "k", "_", "p", "o", "p">>
      [] w = "__ccc_pack_reset" -> <<"_", "_", "c", "c", "c", "_", "p", "a", "c", "k", "_", "r", "e", "s", "e", "t">>
      [] w = "__ccc_pack_push_only" -> <<"_", "_", "c", "c", "c", "_", "p", "a", "c", "k", "_", "p", "u", "s", "h", "_", "o", "n", "l", "y">>
      [] w = "struct" -> <<"s", "t", "r", "u", "c", "t">>
      [] w = "union" -> <<"u", "n", "i", "o", "n">>
      [] w = "S" -> <<"S">>
      [] w = "size_t" -> <<"s", "i", "z", "e", "_", "t">>
      [] w = "0" -> <<"0">>
      [] w = "_Static_assert" ->
            <<"_", "S", "t", "a", "t", "i", "c", "_", "a", "s", "s", "e", "r", "t">>
      [] w = "__asm__" -> <<"_", "_", "a", "s", "m", "_", "_">>
      [] w = "\"\"" -> <<"\"", "\"">>
      [] w = "\"m\"" -> <<"\"", "m", "\"">>
      [] w = "A" -> <<"A">>
      [] w = "B" -> <<"B">>
      [] w = "C" -> <<"C">>
      [] w = "D" -> <<"D">>
      [] w = "[" -> <<"[">>
      [] w = "]" -> <<"]">>
      [] w = "..." -> <<".", ".", ".">>
      [] w = "." -> <<".">>
      [] w = ":" -> <<":">>
      [] w = "5" -> <<"5">>
      [] w = "a" -> <<"a">>
      [] w = "(" -> <<"(">>
      [] w = ")" -> <<")">>
      [] w = "{" -> <<"{">>
      [] w = "}" -> <<"}">>
      [] w = ";" -> <<";">>
      [] w = "=" -> <<"=">>
      [] w = "," -> <<",">>
      [] w = "__int128" -> <<"_", "_", "i", "n", "t", "1", "2", "8">>
      [] w = "__attribute__" -> <<"_", "_", "a", "t", "t", "r", "i", "b", "u", "t", "e", "_", "_">>
      [] w = "aligned" -> <<"a", "l", "i", "g", "n", "e", "d">>
      [] w = "||" -> <<"|", "|">>
      [] w = "&&" -> <<"&", "&">>
      [] w = "|" -> <<"|">>
      [] w = "^" -> <<"^">>
      [] w = "&" -> <<"&">>
      [] w = "==" -> <<"=", "=">>
      [] w = "!=" -> <<"!", "=">>
      [] w = "<" -> <<"<">>
      [] w = "<=" -> <<"<", "=">>
      [] w = ">" -> <<">">>
      [] w = ">=" -> <<">", "=">>
      [] w = "<<" -> <<"<", "<">>
      [] w = ">>" -> <<">", ">">>
      [] w = "+" -> <<"+">>
      [] w = "__typeof__" -> <<"_", "_", "t", "y", "p", "e", "o", "f", "_", "_">>
      [] w = "__extension__" ->
            <<"_", "_", "e", "x", "t", "e", "n", "s", "i", "o", "n", "_", "_">>
      [] w = "-" -> <<"-">>
      [] w = "*" -> <<"*">>
      [] w = "/" -> <<"/">>
      [] w = "%" -> <<"%">>

\* the words of a line, one space between two words, and a newline
RECURSIVE renderLine(_)
renderLine(ws) ==
    IF ws = <<>> THEN <<"\n">>
    ELSE Spell(Head(ws)) \o (IF Len(ws) > 1 THEN <<" ">> ELSE <<>>) \o renderLine(Tail(ws))

RECURSIVE render(_)
render(lines) == IF lines = <<>> THEN <<>> ELSE renderLine(Head(lines)) \o render(Tail(lines))

\* top-level constructs that are valid wherever they stand
ValidItems ==
    {<<"typedef", "int", "T", ";">>,
     <<"int", "y", "=", "1", ";">>,
     <<"void", "p", "(", "int", "*", "q", ")", ";">>,
     <<"int", "f", "(", "int", "T", ")", "{", "return", "T", "*", "1", ";", "}">>,
     <<"int", "g", "(", ")", "{", "int", "T", "=", "(", "T", ")", ";", "}">>,
     <<"int", "h", "(", ")", "{", "for", "(", "int", "T", "=", "1", ";", "T", ";", ")",
       "{", "}", "T", "y", ";", "}">>}

\* a declaration that is valid after typedef int T
TypedefUse == <<"T", "x", ";">>

\* malformed top-level constructs
MalformedItems ==
    {<<")">>,
     <<"int", "q">>,
     <<"int", "q", "=", "1", "+">>,
     <<"int", "q", "(", "int">>,
     <<"int", "q", "(", ")", "{">>}

\* a declaration whose type specifier is followed by an attribute
AttributedInt128 ==
    <<"__int128", "__attribute__", "(", "(", "aligned", "(", "16", ")", ")", ")", "x", ";">>

MaxDecls == 2

Items == ValidItems \cup {TypedefUse} \cup MalformedItems

\* a file of at most MaxDecls constructs, or the attributed declaration
\* followed by at most MaxDecls - 1 of them
DeclInputs ==
    {[family |-> "decls", lines |-> ls] :
        ls \in UNION {[1..n -> Items] : n \in 0..MaxDecls}}
    \cup
    {[family |-> "decls", lines |-> <<AttributedInt128>> \o ls] :
        ls \in UNION {[1..n -> ValidItems] : n \in 0..(MaxDecls - 1)}}

\* top-level constructs that end with a semicolon: declarations with and
\* without declarators, a tagged type defined on its own, static assertions
\* and asm directives
SpanItems ==
    {<<"int", "y", "=", "1", ";">>,
     <<"int", "x", ",", "y", ";">>,
     <<"int", ";">>,
     <<"enum", "A", "{", "B", "}", ";">>,
     <<"typedef", "int", "T", ";">>,
     <<"_Static_assert", "(", "1", ",", "\"m\"", ")", ";">>,
     <<"_Static_assert", "(", "0", ")", ";">>,
     <<"__asm__", "(", "\"m\"", ")", ";">>,
     <<"__asm__", "(", "\"\"", ")", ";">>}

\* a file of one to MaxDecls of them
SpanInputs ==
    {[family |-> "span", lines |-> ls] :
        ls \in UNION {[1..n -> SpanItems] : n \in 1..MaxDecls}}

\* the specifiers of a parameter, and the names of a parameter that are
\* typedef names after typedef int T: T, and size_t, which is one from the
\* start
ParamSpecs == {<<"int">>, <<"T">>, <<"size_t">>, <<"int", "*">>, <<"T", "*">>}

TypedefParamNames == {"T", "size_t"}

\* typedef int T; and a prototype whose last parameter has such a name
ParamInputs ==
    {[family |-> "param", spec |-> sp, name |-> nm, leading |-> Len(pre) \div 3,
      lines |-> << <<"typedef", "int", "T", ";">>,
                   <<"void", "p", "(">> \o pre \o sp \o <<nm, ")", ";">> >>] :
        sp \in ParamSpecs, nm \in TypedefParamNames,
        pre \in {<<>>, <<"int", "x", ",">>, <<"T", "y", ",">>}}

\* the words in parentheses of a speculative type parse: type names, which
\* are committed, and words that begin like one and are given up
SpeculatedWords ==
    {<<"int">>, <<"T", "*">>, <<"x">>, <<"int", "1">>, <<"const", "1">>,
     <<"volatile", "1">>, <<"static", "1">>, <<"T", "x">>, <<"typedef", "1">>,
     <<"volatile", "int", "y">>}

\* typedef int T; and an initializer that is a cast or a sizeof of them
SpeculationInputs ==
    {[family |-> "speculation", lines |-> << <<"typedef", "int", "T", ";">>,
         <<"int", "y", "=">> \o op \o <<"(">> \o ws \o <<")">> \o rest \o <<";">> >>] :
        op \in {<<>>, <<"sizeof">>}, ws \in SpeculatedWords, rest \in {<<>>, <<"x">>}}

\* parenthesised expressions that begin like a type name: with the name T,
\* which the enclosing function declares as an object, or with __extension__
FallbackWords ==
    {<<"T", "+", "1">>, <<"__extension__", "1">>, <<"x", "+", "1">>, <<"1">>}

\* the opening of a function in which T, a typedef name at file scope, names
\* a parameter, a variable or an enumeration constant, or is not redeclared
FallbackScopes ==
    {<<"int", "g", "(", "int", "T", ",", "int", "x", ")", "{">>,
     <<"int", "g", "(", "int", "x", ")", "{", "int", "T", ";">>,
     <<"int", "g", "(", "int", "x", ")", "{", "enum", "{", "T", "}", ";">>}

\* the statement that holds the parenthesised words ws: a declaration with
\* typeof, a cast-like return, or a sizeof
FallbackUses(ws) ==
    {<<"__typeof__", "(">> \o ws \o <<")", "y", ";">>,
     <<"return", "(">> \o ws \o <<")", ";">>,
     <<"return", "sizeof", "(">> \o ws \o <<")", ";">>}

\* typedef int T; and a function whose body is valid C in which the
\* parentheses hold an expression
FallbackInputs ==
    UNION {{[family |-> "fallback", words |-> ws,
             lines |-> << <<"typedef", "int", "T", ";">>, sc \o use \o <<"}">> >>] :
               sc \in FallbackScopes, use \in FallbackUses(ws)} : ws \in FallbackWords}

\* function definitions whose body, or a block of it, declares the typedef
\* name U or the variable x
BlockItems ==
    {<<"int", "g", "(", ")", "{", "typedef", "int", "U", ";", "}">>,
     <<"int", "g", "(", ")", "{", "{", "typedef", "int", "U", ";", "}", "int", "U", ";", "}">>,
     <<"int", "g", "(", ")", "{", "typedef", "int", "U", ";", "U", "x", ";", "}">>,
     <<"int", "g", "(", ")", "{", "int", "x", ";", "}">>}

\* what follows the function: nothing, a declaration that begins with U, or
\* a variable U and its use in parentheses before an operator
AfterBlock ==
    {<<>>,
     << <<"U", "x", ";">> >>,
     << <<"int", "U", ";">>, <<"int", "y", "=", "(", "U", ")", "*", "1", ";">> >>}

ScopeInputs ==
    {[family |-> "scope", lines |-> <<b>> \o a] : b \in BlockItems, a \in AfterBlock}

\* function definitions with a storage-class specifier inside the body: in
\* a closed body, in a nested block, in a body with a syntax error, in
\* bodies that reach the end of input without a closing brace, and in a
\* parenthesised expression that begins like a type name
FlagBlockItems ==
    {<<"int", "g", "(", ")", "{", "static", "int", "x", ";", "}">>,
     <<"int", "g", "(", ")", "{", "{", "static", "int", "x", ";", "}", "int", "y", ";", "}">>,
     <<"int", "g", "(", ")", "{", "static", "int", "x", "=", ")", ";", "}">>,
     <<"int", "g", "(", ")", "{", "static", "int", "x", ";">>,
     <<"int", "g", "(", ")", "{", "{", "static", "int", "x", ";">>,
     <<"static", "int", "g", "(", ")", "{", "int", "x", ";", "}">>,
     <<"int", "g", "(", ")", "{", "volatile", "int", "x", ";", "}">>,
     <<"int", "g", "(", ")", "{", "(", "static", "1", ")", ";", "}">>,
     <<"int", "g", "(", ")", "{", "(", "static", "1", ")", ";">>}

FlagInputs ==
    {[family |-> "flags", lines |-> <<b>> \o a] :
        b \in FlagBlockItems, a \in {<<>>, << <<"int", "y", "=", "1", ";">> >>}}

\* the words __attribute__((name))
Attr(name) == <<"__attribute__", "(", "(", name, ")", ")">>

\* parameter lists in which a parameter, or a parameter of a function
\* pointer parameter, is marked noreturn by the keyword or by an attribute
NoreturnParams ==
    {<<"int", "x">>,
     <<"_Noreturn", "int", "x">>,
     Attr("noreturn") \o <<"int", "x">>,
     Attr("unused") \o <<"int", "x">>,
     <<"void", "(", "*", "f", ")", "(", "_Noreturn", "int", ")">>,
     <<"_Noreturn", "void", "(", "*", "f", ")", "(", "int", ")">>,
     <<"void", "(", "*">> \o Attr("__noreturn__") \o <<"f", ")", "(", "int", ")">>,
     <<"void", "(", "*", "f", ")", "(", "int", ")">> \o Attr("noreturn"),
     <<"int", "x", ",", "_Noreturn", "int", "y">>,
     <<"_Noreturn", "int", "x", ",", "int", "y">>,
     <<"_Noreturn">>}

\* a prototype of p with such a parameter list; outer tells whether the
\* prototype itself is declared _Noreturn
NoreturnInputs ==
    {[family |-> "noreturn", outer |-> (o # <<>>), params |-> ps,
      lines |-> << o \o <<"void", "p", "(">> \o ps \o <<")", ";">> >>] :
        o \in {<<>>, <<"_Noreturn">>}, ps \in NoreturnParams}

CastVocabulary == {"1", "x", "T", "int", "(", ")", "*"}

MaxCastLen == 4

\* parenthesised words in which a parameter list follows a pointer group,
\* a bare parameter list follows the specifiers, or the parameter list
\* holds something else than parameters
FunctionPointerCasts ==
    {<<"int", "(", "*", ")", "(", ")", ")", "x">>,
     <<"int", "(", "*", ")", "(", "int", ")", ")", "x">>,
     <<"T", "(", "*", ")", "(", "T", "*", ")", ")", "x">>,
     <<"int", "*", "(", "*", ")", "(", "int", ")", ")", "x">>,
     <<"int", "(", "*", "(", "*", ")", "(", ")", ")", ")", "x">>,
     <<"int", "(", "*", "(", "*", ")", ")", "(", "int", ")", ")", "x">>,
     <<"int", "(", "*", ")", "(", "1", ")", ")", "x">>,
     <<"int", "(", "*", ")", "(", "x", ")", ")", "x">>,
     <<"int", "(", "*", ")", "(", "int", "x", ")", ")", "x">>,
     <<"int", "(", "int", ")", ")", "x">>,
     <<"int", "*", "(", ")", ")", "x">>}

\* typedef int T; int x = ( w1 .. wn ;   for every word sequence w of at
\* most MaxCastLen words
\* and for the longer word sequences of FunctionPointerCasts
CastInputs ==
    {[family |-> "cast",
      lines |-> << <<"typedef", "int", "T", ";">>,
                   <<"int", "x", "=", "(">> \o ws \o <<";">> >>] :
        ws \in UNION {[1..n -> CastVocabulary] : n \in 0..MaxCastLen}
                 \cup FunctionPointerCasts}

\* the parameters of the function pointer declarations of the sources
ParamForms == {<<"int">>, <<"int", "*">>, <<"int", "q">>, <<"void", "*", "q">>}

MaxParams == 2

\* the parameters ps, with a comma between two of them
RECURSIVE commaList(_)
commaList(ps) ==
    IF ps = <<>> THEN <<>>
    ELSE Head(ps) \o (IF Len(ps) > 1 THEN <<",">> ELSE <<>>) \o commaList(Tail(ps))

\* int ( * x ) ( P1 , .. , Pn ) ;   for at most MaxParams parameters
FunctionPointerInputs ==
    {[family |-> "fptr",
      lines |-> << <<"int", "(", "*", "x", ")", "(">> \o commaList(ps) \o <<")", ";">> >>] :
        ps \in UNION {[1..n -> ParamForms] : n \in 0..MaxParams}}

\* the explicit values of the enum variants of the sources; "" is none
VariantValues == {"", "1", "10"}

VariantNames == <<"A", "B", "C", "D">>

MaxVariants == 2

\* the variants with the values vs, with a comma between two of them
RECURSIVE variantList(_, _)
variantList(vs, i) ==
    IF i > Len(vs) THEN <<>>
    ELSE <<VariantNames[i]>>
         \o (IF vs[i] = "" THEN <<>> ELSE <<"=", vs[i]>>)
         \o (IF i < Len(vs) THEN <<",">> ELSE <<>>)
         \o variantList(vs, i + 1)

\* enum { A = 10 , B , C = 1 , D } ;
EnumExample == <<"10", "", "1", "">>

\* enum { A [= v1] , B [= v2] .. } ;   for at most MaxVariants variants, and
\* the example of four
EnumInputs ==
    {[family |-> "enum",
      lines |-> << <<"enum", "{">> \o variantList(vs, 1) \o <<"}", ";">> >>] :
        vs \in UNION {[1..n -> VariantValues] : n \in 1..MaxVariants} \cup {EnumExample}}

\* the explicit values of the variants of a chain: none, a literal, and an
\* identifier that names no enum constant
ChainValues == {"", "1", "x"}

\* enum { A = x , B , C = 1 , D } ;
ChainExample == <<"x", "", "1", "">>

\* enum bodies of three variants with such values, and the example of four
ChainInputs ==
    {[family |-> "chain",
      lines |-> << <<"enum", "{">> \o variantList(vs, 1) \o <<"}", ";">> >>] :
        vs \in [1..3 -> ChainValues] \cup {ChainExample}}

\* conditions of a static assertion after enum { A, B }; zero tells
\* whether the value of the condition is 0.  x is not declared, so a
\* condition with x in it has no value.
AssertConditions ==
    {[words |-> <<"0">>, zero |-> TRUE],
     [words |-> <<"1">>, zero |-> FALSE],
     [words |-> <<"10">>, zero |-> FALSE],
     [words |-> <<"x">>, zero |-> FALSE],
     [words |-> <<"A">>, zero |-> TRUE],
     [words |-> <<"B">>, zero |-> FALSE],
     [words |-> <<"1", "-", "1">>, zero |-> TRUE],
     [words |-> <<"1", "+", "1">>, zero |-> FALSE],
     [words |-> <<"B", "-", "1">>, zero |-> TRUE],
     [words |-> <<"A", "*", "10">>, zero |-> TRUE],
     [words |-> <<"x", "-", "x">>, zero |-> FALSE],
     [words |-> <<"0", "*", "x">>, zero |-> FALSE],
     [words |-> <<"1", "==", "2">>, zero |-> TRUE],
     [words |-> <<"1", "!=", "2">>, zero |-> FALSE],
     [words |-> <<"!", "1">>, zero |-> TRUE],
     [words |-> <<"!", "0">>, zero |-> FALSE],
     [words |-> <<"-", "0">>, zero |-> TRUE],
     [words |-> <<"-", "1">>, zero |-> FALSE],
     [words |-> <<"!", "x">>, zero |-> FALSE]}

\* _Static_assert ( words [, "m"] ) ;
assertLine(c, msg) ==
    <<"_Static_assert", "(">> \o c.words \o msg \o <<")", ";">>

\* enum { A, B }; and one or two static assertions, with and without a message
AssertInputs ==
    {[family |-> "assert", conds |-> <<c>>,
      lines |-> << <<"enum", "{", "A", ",", "B", "}", ";">>, assertLine(c, msg) >>] :
        c \in AssertConditions, msg \in {<<>>, <<",", "\"m\"">>}}
    \cup
    {[family |-> "assert", conds |-> <<c, d>>,
      lines |-> << <<"enum", "{", "A", ",", "B", "}", ";">>,
                   assertLine(c, <<>>), assertLine(d, <<>>) >>] :
        c \in AssertConditions, d \in AssertConditions}

\* items of an initializer list.  rangePos is the place of the first range
\* among the designators of the item, 0 when there is none; lo and hi are
\* the values of its bounds, none for a bound with the undeclared x in it,
\* and needsEnum tells that the bounds are the constants of enum { A, B };
\* kinds are the kinds of the designators and init the kind of the
\* initializer.
RangeItems ==
    {
     [words |-> <<"[", "0", "...", "2", "]", "=", "5">>,
      rangePos |-> 1, lo |-> <<0>>, hi |-> <<2>>, needsEnum |-> FALSE,
      kinds |-> <<"Range">>, init |-> "Expr"],
     [words |-> <<"[", "1", "...", "1", "]", "=", "5">>,
      rangePos |-> 1, lo |-> <<1>>, hi |-> <<1>>, needsEnum |-> FALSE,
      kinds |-> <<"Range">>, init |-> "Expr"],
     [words |-> <<"[", "2", "...", "0", "]", "=", "5">>,
      rangePos |-> 1, lo |-> <<2>>, hi |-> <<0>>, needsEnum |-> FALSE,
      kinds |-> <<"Range">>, init |-> "Expr"],
     [words |-> <<"[", "A", "...", "B", "]", "=", "5">>,
      rangePos |-> 1, lo |-> <<0>>, hi |-> <<1>>, needsEnum |-> TRUE,
      kinds |-> <<"Range">>, init |-> "Expr"],
     [words |-> <<"[", "0", "...", "x", "]", "=", "5">>,
      rangePos |-> 1, lo |-> <<0>>, hi |-> <<>>, needsEnum |-> FALSE,
      kinds |-> <<"Range">>, init |-> "Expr"],
     [words |-> <<"[", "x", "...", "1", "]", "=", "5">>,
      rangePos |-> 1, lo |-> <<>>, hi |-> <<1>>, needsEnum |-> FALSE,
      kinds |-> <<"Range">>, init |-> "Expr"],
     [words |-> <<"[", "0", "...", "1", "+", "1", "]", "=", "5">>,
      rangePos |-> 1, lo |-> <<0>>, hi |-> <<2>>, needsEnum |-> FALSE,
      kinds |-> <<"Range">>, init |-> "Expr"],
     [words |-> <<"[", "0", "...", "1", "]", "5">>,
      rangePos |-> 1, lo |-> <<0>>, hi |-> <<1>>, needsEnum |-> FALSE,
      kinds |-> <<"Range">>, init |-> "Expr"],
     [words |-> <<"[", "0", "...", "1", "]", "=", "{", "1", ",", "2", "}">>,
      rangePos |-> 1, lo |-> <<0>>, hi |-> <<1>>, needsEnum |-> FALSE,
      kinds |-> <<"Range">>, init |-> "List"],
     [words |-> <<"[", "0", "...", "1", "]", "[", "0", "...", "1", "]", "=", "5">>,
      rangePos |-> 1, lo |-> <<0>>, hi |-> <<1>>, needsEnum |-> FALSE,
      kinds |-> <<"Range", "Range">>, init |-> "Expr"],
     [words |-> <<"[", "x", "...", "1", "]", "[", "0", "...", "1", "]", "=", "5">>,
      rangePos |-> 1, lo |-> <<>>, hi |-> <<1>>, needsEnum |-> FALSE,
      kinds |-> <<"Range", "Range">>, init |-> "Expr"],
     [words |-> <<"[", "1", "]", "[", "0", "...", "1", "]", "=", "5">>,
      rangePos |-> 2, lo |-> <<0>>, hi |-> <<1>>, needsEnum |-> FALSE,
      kinds |-> <<"Index", "Range">>, init |-> "Expr"],
     [words |-> <<"[", "1", "]", "=", "5">>,
      rangePos |-> 0, lo |-> <<>>, hi |-> <<>>, needsEnum |-> FALSE,
      kinds |-> <<"Index">>, init |-> "Expr"],
     [words |-> <<".", "a", "=", "5">>,
      rangePos |-> 0, lo |-> <<>>, hi |-> <<>>, needsEnum |-> FALSE,
      kinds |-> <<"Field">>, init |-> "Expr"],
     [words |-> <<"a", ":", "5">>,
      rangePos |-> 0, lo |-> <<>>, hi |-> <<>>, needsEnum |-> FALSE,
      kinds |-> <<"Field">>, init |-> "Expr"],
     [words |-> <<"5">>,
      rangePos |-> 0, lo |-> <<>>, hi |-> <<>>, needsEnum |-> FALSE,
      kinds |-> <<>>, init |-> "Expr"],
     [words |-> <<"{", "[", "0", "...", "1", "]", "=", "5", "}">>,
      rangePos |-> 0, lo |-> <<>>, hi |-> <<>>, needsEnum |-> FALSE,
      kinds |-> <<>>, init |-> "List"]
    }

\* the words of items, with commas between them
RECURSIVE itemWords(_)
itemWords(items) ==
    IF Len(items) = 1 THEN items[1].words
    ELSE items[1].words \o <<",">> \o itemWords(Tail(items))

\* int a = { items } ; alone or after enum { A, B };
RangeInputs ==
    {[family |-> "range", enum |-> e, items |-> is,
      lines |-> (IF e THEN << <<"enum", "{", "A", ",", "B", "}", ";">> >> ELSE <<>>)
                \o << <<"int", "a", "=", "{">> \o itemWords(is) \o <<"}", ";">> >>] :
        e \in BOOLEAN,
        is \in {<<i>> : i \in RangeItems} \cup {<<i, j>> : i \in RangeItems, j \in RangeItems}}

\* runs of the identifiers that stand for #pragma pack directives, each
\* with the alignment value that is active after it: <<2>> after pack(2)
\* and after pack(push, 2), none after a pop or a reset of it
PackDirectives ==
    {[words |-> <<>>, active |-> <<>>],
     [words |-> <<"__ccc_pack_set_2">>, active |-> <<2>>],
     [words |-> <<"__ccc_pack_set_2", ";">>, active |-> <<2>>],
     [words |-> <<"__ccc_pack_push_2">>, active |-> <<2>>],
     [words |-> <<"__ccc_pack_push_only">>, active |-> <<>>],
     [words |-> <<"__ccc_pack_set_2", "__ccc_pack_push_only">>, active |-> <<2>>],
     [words |-> <<"__ccc_pack_push_2", "__ccc_pack_pop">>, active |-> <<>>],
     [words |-> <<"__ccc_pack_set_2", "__ccc_pack_reset">>, active |-> <<>>]}

\* declarations with a struct or union in them
PackedDeclarations ==
    {<<"struct", "S", "{", "int", "x", ";", "}", ";">>,
     <<"struct", "S", "{", "int", "x", ",", "y", ";", "int", ";", "}", "q", ";">>,
     <<"union", "U", "{", "int", "x", ";", "}", ";">>,
     <<"struct", "{", "}", "q", ";">>,
     <<"struct", "S", "q", ";">>,
     <<"struct", "S", "{", "struct", "{", "int", "x", ";", "}", ";", "}", ";">>,
     <<"typedef", "struct", "S", "{", "int", "x", ";", "}", "T", ";">>}

\* the directives, then such a declaration at the top level or in the body
\* of a function
PackInputs ==
    {[family |-> "pack", active |-> d.active,
      lines |-> << d.words \o decl >>] : d \in PackDirectives, decl \in PackedDeclarations}
    \cup
    {[family |-> "pack", active |-> d.active,
      lines |-> << <<"int", "g", "(", ")", "{">> \o d.words \o decl \o <<"}">> >>] :
        d \in PackDirectives, decl \in PackedDeclarations}

BinaryOperators ==
    {"||", "&&", "|", "^", "&", "==", "!=", "<", "<=", ">", ">=", "<<", ">>",
     "+", "-", "*", "/", "%"}

\* int x = 1 op1 2 op2 3 ;   for every two binary operators
BinaryInputs ==
    {[family |-> "binary",
      lines |-> << <<"int", "x", "=", "1", op1, "2", op2, "3", ";">> >>] :
        op1 \in BinaryOperators, op2 \in BinaryOperators}

\* the two revisions of index.ts: "loc" takes options.loc and sweeps the
\* tree, "plain" has no such option and returns the tree as built
Revisions == {"loc", "plain"}

AllOptions ==
    [loc : BOOLEAN, gnuExtensions : BOOLEAN, revision : Revisions]

\* the defaults: gnuExtensions ?? true, loc ?? false
DefaultOptions == [loc |-> FALSE, gnuExtensions |-> TRUE, revision |-> "loc"]

-----------------------------------------------------------------------------
(* The call of parse as a state machine                                    *)

Init ==
    /\ \/ input \in DeclInputs /\ options \in AllOptions
       \/ input \in CastInputs \cup BinaryInputs \cup FunctionPointerInputs \cup EnumInputs \cup SpanInputs
                       \cup ParamInputs \cup SpeculationInputs
                       \cup ScopeInputs \cup FlagInputs \cup NoreturnInputs
                       \cup ChainInputs \cup AssertInputs \cup PackInputs \cup RangeInputs
                       \cup FallbackInputs
          /\ options = DefaultOptions
    /\ calls = 0
    /\ firstCall = null
    /\ source = render(input.lines)
    /\ tokens = <<>>
    /\ attributes = <<>>
    /\ parser = NewParser
    /\ decls = <<>>
    /\ ast = null
    /\ pc = "start"
    /\ playgroundInit

\* the body of the method name applied to args
method(name, args) ==
    CASE name = "parseTypeSpecifier" -> parseTypeSpecifierBody(args[1])
      [] name = "parseTypeofSpecifier" -> parseTypeofSpecifierBody(args[1])
      [] name = "parseAbstractDeclaratorSuffix" -> parseAbstractDeclaratorSuffixBody(args[1], args[2])
      [] name = "parseDeclaratorWithAttrs" -> parseDeclaratorWithAttrsBody(args[1])
      [] name = "parseParamList" -> parseParamListBody(args[1])
      [] name = "parseAssignmentExpr" -> parseAssignmentExprBody(args[1])
      [] name = "parseExpr" -> parseExprBody(args[1])
      [] name = "parseCastExpr" -> parseCastExprBody(args[1])
      [] name = "parseInitializer" -> parseInitializerBody(args[1])
      [] name = "parseLocalDeclaration" -> parseLocalDeclarationBody(args[1])
      [] name = "parseStmt" -> parseStmtBody(args[1])
      [] name = "parseCompoundStmt" -> parseCompoundStmtBody(args[1])
      [] name = "driverIteration" -> driverIterationBody(args[1], args[2])

\* const tokens = scanner.scan(); const parser = new Parser(tokens)
Scan ==
    /\ pc = "start"
    /\ tokens' = scan(source, options.gnuExtensions)
    /\ attributes' = attributeTable(tokens')
    /\ parser' = NewParser
    /\ decls' = <<>>
    /\ pc' = "loop"
    /\ UNCHANGED <<input, source, options, ast, calls, firstCall>>
    /\ UNCHANGED playground

\* one iteration of the driver loop; an iteration that enters a loop which
\* repeats without changing the parser never comes back
DriverIteration ==
    /\ pc = "loop"
    /\ ~atEof(parser)
    /\ \E r \in {driverIteration(parser, decls)} :
           /\ parser' = r.p
           /\ decls' = r.decls
           /\ pc' = IF r.p.hung THEN "hung" ELSE "loop"
    /\ UNCHANGED <<input, source, options, tokens, attributes, ast, calls, firstCall>>
    /\ UNCHANGED playground

\* one more iteration of the loop that repeats without changing the parser
Spin ==
    /\ pc = "hung"
    /\ UNCHANGED vars

\* the revision with options.loc: build the tree, sweep it, return it
Return ==
    /\ pc = "loop"
    /\ atEof(parser)
    /\ options.revision = "loc"
    /\ ast' = normalizeAstLocations(TranslationUnit(decls, source), source, options.loc)
    /\ pc' = "done"
    /\ UNCHANGED <<input, source, options, tokens, attributes, parser, decls, calls, firstCall>>
    /\ UNCHANGED playground

\* the revision without options.loc: the tree is returned with a constant loc
ReturnPlain ==
    /\ pc = "loop"
    /\ atEof(parser)
    /\ options.revision = "plain"
    /\ ast' = TranslationUnit(decls, source) @@ [loc |-> LOC]
    /\ pc' = "done"
    /\ UNCHANGED <<input, source, options, tokens, attributes, parser, decls, calls, firstCall>>
    /\ UNCHANGED playground

Next == Scan \/ DriverIteration \/ Spin \/ Return \/ ReturnPlain

Spec == Init /\ [][Next]_vars

-----------------------------------------------------------------------------
(* Calls of parse one after the other                                      *)

\* the sources of the first call: declarations that use, declare and shadow
\* a typedef name, an enum, a source with errors and the one whose parse
\* does not return
CallInputs ==
    {[family |-> "decls", lines |-> ls] :
        ls \in {<<TypedefUse>>,
                << <<"typedef", "int", "T", ";">>, TypedefUse >>,
                << <<"int", "g", "(", ")", "{", "int", "T", "=", "(", "T", ")", ";", "}">>,
                   TypedefUse >>,
                << <<"int", "q", "=", "1", "+">>, TypedefUse >>,
                << <<"int", "x", "=", "A", ";">> >>,
                <<AttributedInt128>>}}
    \cup {[family |-> "enum",
           lines |-> << <<"enum", "{">> \o variantList(EnumExample, 1) \o <<"}", ";">> >>]}

\* the sources of the calls between the first call and its repetition
InterleavedInputs ==
    {[family |-> "decls", lines |-> ls] :
        ls \in {<< <<"typedef", "int", "T", ";">> >>,
                << <<"enum", "{", "A", ",", "B", "}", "x", ";">> >>,
                << <<"int", "q", "(", ")", "{", "int", "T", ";">> >>}}

\* the calls of one behaviour
MaxCalls == 3

InitCalls ==
    /\ input \in CallInputs
    /\ options \in AllOptions
    /\ calls = 0
    /\ firstCall = null
    /\ source = render(input.lines)
    /\ tokens = <<>>
    /\ attributes = <<>>
    /\ parser = NewParser
    /\ decls = <<>>
    /\ ast = null
    /\ pc = "start"
    /\ playgroundInit

\* parse has returned and is called again, with the arguments of the first
\* call or with another source; the Parser of the call before is garbage
\* from here on and is replaced by the constructor in Scan
CallAgain ==
    /\ pc = "done"
    /\ calls + 1 < MaxCalls
    /\ calls' = calls + 1
    /\ firstCall' = IF calls = 0
                THEN [input |-> input, options |-> options, ast |-> ast, parser |-> parser]
                ELSE firstCall
    /\ \/ input' = firstCall'.input /\ options' = firstCall'.options
       \/ input' \in InterleavedInputs /\ options' = DefaultOptions
    /\ source' = render(input'.lines)
    /\ tokens' = <<>>
    /\ attributes' = <<>>
    /\ decls' = <<>>
    /\ ast' = null
    /\ pc' = "start"
    /\ UNCHANGED parser
    /\ UNCHANGED playground

NextCalls == Next \/ CallAgain

SpecCalls == InitCalls /\ [][NextCalls]_vars

-----------------------------------------------------------------------------
(* Scanner.scan alone                                                      *)

\* the characters of the sources of the scanner: a letter, a digit, white
\* space, the characters of comments and line markers, of a string literal
\* and of an escape, and a punctuator
ScanAlphabet == {"a", "1", " ", "\n", "/", "*", "#", "\"", "\\", ";"}

MaxChars == 4

\* every source of at most MaxChars characters of ScanAlphabet
CharInputs ==
    {[family |-> "chars", chars |-> cs] :
        cs \in UNION {[1..n -> ScanAlphabet] : n \in 0..MaxChars}}

\* the GNU spellings, as the characters of the source
GnuSpellings ==
    [w \in {"typeof", "asm", "__typeof__", "__asm__", "__typeof", "__asm"} |->
        CASE w = "typeof"     -> <<"t", "y", "p", "e", "o", "f">>
          [] w = "asm"        -> <<"a", "s", "m">>
          [] w = "__typeof__" -> <<"_", "_", "t", "y", "p", "e", "o", "f", "_", "_">>
          [] w = "__asm__"    -> <<"_", "_", "a", "s", "m", "_", "_">>
          [] w = "__typeof"   -> <<"_", "_", "t", "y", "p", "e", "o", "f">>
          [] w = "__asm"      -> <<"_", "_", "a", "s", "m">>]

\* a GNU spelling alone, after white space, or before a punctuator or
\* another word
KeywordInputs ==
    {[family |-> "keyword", word |-> w, lead |-> Len(pre),
      chars |-> pre \o GnuSpellings[w] \o post] :
        w \in DOMAIN GnuSpellings,
        pre \in {<<>>, <<" ">>, <<"\n">>},
        post \in {<<>>, <<";">>, <<" ", "a">>, <<"(", "a", ")">>}}

\* integer literals: the digits with their prefix, the radix, and how many
\* of I32_MAX, U32_MAX and I64_MAX the value is above
IntegerLiterals ==
    {
     [digits |-> <<"0">>,
      radix |-> 10, above |-> 0],
     [digits |-> <<"4", "2">>,
      radix |-> 10, above |-> 0],
     [digits |-> <<"2", "1", "4", "7", "4", "8", "3", "6", "4", "8">>,
      radix |-> 10, above |-> 1],
     [digits |-> <<"4", "2", "9", "4", "9", "6", "7", "2", "9", "5">>,
      radix |-> 10, above |-> 1],
     [digits |-> <<"4", "2", "9", "4", "9", "6", "7", "2", "9", "6">>,
      radix |-> 10, above |-> 2],
     [digits |-> <<"9", "0", "0", "7", "1", "9", "9", "2", "5", "4", "7", "4", "0", "9", "9", "2">>,
      radix |-> 10, above |-> 2],
     [digits |-> <<"9", "2", "2", "3", "3", "7", "2", "0", "3", "6", "8", "5", "4", "7", "7", "5", "8", "0", "8">>,
      radix |-> 10, above |-> 3],
     [digits |-> <<"0", "x", "2", "a">>,
      radix |-> 16, above |-> 0],
     [digits |-> <<"0", "X", "8", "0", "0", "0", "0", "0", "0", "0">>,
      radix |-> 16, above |-> 1],
     [digits |-> <<"0", "x", "1", "0", "0", "0", "0", "0", "0", "0", "0">>,
      radix |-> 16, above |-> 2],
     [digits |-> <<"0", "x", "7", "f", "f", "f", "f", "f", "f", "f", "f", "f", "f", "f", "f", "f", "f", "f">>,
      radix |-> 16, above |-> 2],
     [digits |-> <<"0", "x", "f", "f", "f", "f", "f", "f", "f", "f", "f", "f", "f", "f", "f", "f", "f", "f">>,
      radix |-> 16, above |-> 3],
     [digits |-> <<"0", "5", "2">>,
      radix |-> 8, above |-> 0],
     [digits |-> <<"0", "1", "7", "7", "7", "7", "7", "7", "7", "7", "7", "7", "7", "7", "7", "7", "7", "7", "7", "7", "7", "7", "7">>,
      radix |-> 8, above |-> 3],
     [digits |-> <<"0", "b", "1", "0", "1">>,
      radix |-> 2, above |-> 0]
    }

\* the suffixes in their spellings, with the suffix each one names
IntegerSuffixes ==
    {
     [letters |-> <<>>, suffix |-> ""],
     [letters |-> <<"u">>, suffix |-> "u"],
     [letters |-> <<"U">>, suffix |-> "u"],
     [letters |-> <<"l">>, suffix |-> "l"],
     [letters |-> <<"L">>, suffix |-> "l"],
     [letters |-> <<"u", "l">>, suffix |-> "ul"],
     [letters |-> <<"U", "L">>, suffix |-> "ul"],
     [letters |-> <<"l", "u">>, suffix |-> "ul"],
     [letters |-> <<"l", "l">>, suffix |-> "ll"],
     [letters |-> <<"L", "L">>, suffix |-> "ll"],
     [letters |-> <<"u", "l", "l">>, suffix |-> "ull"],
     [letters |-> <<"U", "L", "L">>, suffix |-> "ull"],
     [letters |-> <<"l", "l", "u">>, suffix |-> "ull"]
    }

\* a literal with a suffix, alone, before an imaginary suffix, or before a
\* punctuator
NumberInputs ==
    {[family |-> "number", radix |-> l.radix, above |-> l.above, suffix |-> x.suffix,
      imaginary |-> post = <<"i">>, length |-> Len(l.digits) + Len(x.letters),
      chars |-> l.digits \o x.letters \o post] :
        l \in IntegerLiterals, x \in IntegerSuffixes, post \in {<<>>, <<"i">>, <<";">>}}

\* hex digits after the letter of a universal character name: A, the euro
\* sign, a code point above 0xFFFF, one above 0x10FFFF, and one nine digits
\* long
EscapeDigits ==
    {<<"0", "0", "4", "1", "0", "0", "4", "1", "6">>,
     <<"2", "0", "A", "C", "2", "0", "A", "C", "2">>,
     <<"0", "0", "0", "1", "F", "6", "0", "0", "1">>,
     <<"F", "F", "F", "F", "F", "F", "F", "F", "F">>}

\* a universal character name in a string or a character literal: the first
\* digits of one of EscapeDigits, then nothing or a character that is not a
\* hex digit, then the closing quote or nothing
EscapeInputs ==
    UNION {{[family |-> "escape", quote |-> q, letter |-> l, digits |-> n,
             chars |-> <<q, "\\", l>> \o SubSeq(d, 1, n) \o post \o close] :
                q \in {"\"", "'"}, l \in {"u", "U"}, n \in 0..Len(d),
                post \in {<<>>, <<"g">>}, close \in {<<>>, <<"\"">>, <<"'">>}} :
           d \in EscapeDigits}

InitScan ==
    /\ input \in CharInputs \cup KeywordInputs \cup NumberInputs \cup EscapeInputs
    /\ options \in [loc : {FALSE}, gnuExtensions : BOOLEAN, revision : {"loc"}]
    /\ calls = 0
    /\ firstCall = null
    /\ source = input.chars
    /\ tokens = <<>>
    /\ attributes = <<>>
    /\ parser = NewParser
    /\ decls = <<>>
    /\ ast = null
    /\ pc = "start"
    /\ playgroundInit

SpecScan == InitScan /\ [][Scan]_vars

-----------------------------------------------------------------------------
(* The playground: useParser and parser.worker.ts                          *)

MaxRequests == 3

MaxMounts == 2

\* the sources typed into the editor
PlaygroundSources ==
    {render(<< <<"int", "x", ";">> >>), render(<< <<"int", "x", ";">>, <<"int", "y", ";">> >>)}

\* performance.now() - start, in a clock of two ticks
ElapsedTimes == {0, 1}

\* useEffect: new Worker(...), workerRef.current = worker
Mount ==
    /\ ~mounted
    /\ workerRef < MaxMounts
    /\ workerRef' = workerRef + 1
    /\ mounted' = TRUE
    /\ UNCHANGED <<input, source, options, tokens, attributes, parser, decls, ast, pc, calls,
                   firstCall, idRef, state, toWorker, working, toPage, shown, discarded>>

\* the cleanup of the effect: worker.terminate().  The requests that the
\* worker has not read and the parse it is in are gone; a response that is
\* on its way to the page is delivered or not.
Terminate ==
    /\ mounted
    /\ mounted' = FALSE
    /\ toWorker' = <<>>
    /\ working' = NoRequest
    /\ pc' = "idle"
    /\ toPage' \in {toPage, <<>>}
    /\ UNCHANGED <<input, source, options, tokens, attributes, parser, decls, ast, calls,
                   firstCall, idRef, state, workerRef, shown, discarded>>

\* doParse(source, options): const id = ++idRef.current, and
\* workerRef.current?.postMessage(msg), which a null ref or a terminated
\* worker drops
DoParse ==
    /\ idRef < MaxRequests
    /\ idRef' = idRef + 1
    /\ \E src \in PlaygroundSources :
          toWorker' = IF mounted
                      THEN Append(toWorker, [type |-> "parse", id |-> idRef', source |-> src,
                                             options |-> [gnuExtensions |-> TRUE]])
                      ELSE toWorker
    /\ UNCHANGED <<input, source, options, tokens, attributes, parser, decls, ast, pc, calls,
                   firstCall, state, workerRef, mounted, working, toPage, shown,
                   discarded>>

\* self.onmessage of the worker up to the call of parse
WorkerReceive ==
    /\ mounted
    /\ pc = "idle"
    /\ toWorker # <<>>
    /\ working' = Head(toWorker)
    /\ toWorker' = Tail(toWorker)
    /\ source' = Head(toWorker).source
    /\ options' = [loc |-> FALSE, gnuExtensions |-> Head(toWorker).options.gnuExtensions,
                   revision |-> "loc"]
    /\ ast' = null
    /\ pc' = "start"
    /\ UNCHANGED <<input, tokens, attributes, parser, decls, calls, firstCall, idRef, state,
                   workerRef, mounted, toPage, shown, discarded>>

\* parse has returned: self.postMessage of the success response
WorkerPost ==
    /\ pc = "done"
    /\ \E elapsed \in ElapsedTimes :
          toPage' = Append(toPage, [type |-> "success", id |-> working.id, ast |-> ast,
                                    elapsed |-> elapsed])
    /\ working' = NoRequest
    /\ pc' = "idle"
    /\ UNCHANGED <<input, source, options, tokens, attributes, parser, decls, ast, calls,
                   firstCall, idRef, state, workerRef, mounted, toWorker, shown, discarded>>

\* parse has thrown, which it can at any step: the catch block
WorkerThrow ==
    /\ pc \in {"start", "loop"}
    /\ \E elapsed \in ElapsedTimes :
          toPage' = Append(toPage, [type |-> "error", id |-> working.id,
                                    error |-> [message |-> "thrown"], elapsed |-> elapsed])
    /\ working' = NoRequest
    /\ pc' = "idle"
    /\ UNCHANGED <<input, source, options, tokens, attributes, parser, decls, ast, calls,
                   firstCall, idRef, state, workerRef, mounted, toWorker, shown, discarded>>

\* a handler that takes every response
neverStale(id, current) == FALSE

\* if (msg.id !== idRef.current) return
isStale(id, current) == id # current

\* the ParserState that worker.onmessage sets for msg
stateOf(msg) ==
    IF msg.type = "success"
    THEN [ast |-> msg.ast, error |-> <<>>, elapsed |-> <<msg.elapsed>>]
    ELSE [ast |-> null, error |-> <<msg.error.message>>, elapsed |-> <<msg.elapsed>>]

\* worker.onmessage of the page
PageReceive ==
    /\ toPage # <<>>
    /\ toPage' = Tail(toPage)
    /\ IF isStale(Head(toPage).id, idRef)
       THEN discarded' = discarded \cup {Head(toPage).id} /\ UNCHANGED <<state, shown>>
       ELSE state' = stateOf(Head(toPage)) /\ shown' = Head(toPage).id
            /\ UNCHANGED discarded
    /\ UNCHANGED <<input, source, options, tokens, attributes, parser, decls, ast, pc, calls,
                   firstCall, idRef, workerRef, mounted, toWorker, working>>

InitPlayground ==
    /\ input = [family |-> "playground"]
    /\ options = DefaultOptions
    /\ calls = 0
    /\ firstCall = null
    /\ source = <<>>
    /\ tokens = <<>>
    /\ attributes = <<>>
    /\ parser = NewParser
    /\ decls = <<>>
    /\ ast = null
    /\ pc = "idle"
    /\ playgroundInit

NextPlayground ==
    \/ Mount
    \/ Terminate
    \/ DoParse
    \/ WorkerReceive
    \/ Scan
    \/ DriverIteration
    \/ Return
    \/ WorkerPost
    \/ WorkerThrow
    \/ PageReceive

SpecPlayground == InitPlayground /\ [][NextPlayground]_vars

-----------------------------------------------------------------------------
(* Properties of parse                                                     *)

\* the objects that the fields of an object hold
held(v) ==
    {v[f] : f \in objectFieldsOf(v)}
    \cup UNION {{v[f][i] : i \in DOMAIN v[f]} : f \in DOMAIN v \cap ArrayFields}

\* the objects of a tree
RECURSIVE objectsOf(_)
objectsOf(v) == {v} \cup UNION {objectsOf(c) : c \in held(v)}

\* the AST nodes of a tree: the objects with a type
astNodes(v) == {o \in objectsOf(v) : "type" \in DOMAIN o}

\* the child nodes of an object: the nearest objects below it that have a span
RECURSIVE childNodes(_)
childNodes(v) ==
    UNION {IF isAstNodeLike(c) THEN {c} ELSE childNodes(c) : c \in held(v)}

\* the names a top-level declaration declares
namesDeclared(d) ==
    IF d.type = "FunctionDefinition" THEN {d.name} ELSE declaredNames(d.declarators)

\* the name a construct of ValidItems declares
itemName(item) == IF item[1] = "typedef" THEN item[3] ELSE item[2]

\* the lines of the source after the first
trailing == {input.lines[i] : i \in 2..Len(input.lines)}

\* the source is one malformed construct followed by valid constructs
OneMalformedThenValid ==
    /\ input.family = "decls"
    /\ Len(input.lines) >= 2
    /\ input.lines[1] \in MalformedItems
    /\ trailing \subseteq ValidItems

\* The model covers the sources: no parse of them enters a branch of the
\* grammar that the model leaves out.
SourcesWithinModel == \A e \in parser.log : e.op # "unmodelled"

\* C1: parse terminates for every source: no loop of the parser is entered
\* in a state that its iteration leaves unchanged.
ParseMakesProgress == pc # "hung"

\* C2: for a source that is one malformed top-level construct followed by
\* valid top-level declarations, the returned decls are not empty and hold a
\* declaration of the name of every trailing construct.
RecoversTrailingDeclarations ==
    (pc = "done" /\ OneMalformedThenValid) =>
        /\ ast.decls # <<>>
        /\ \A item \in trailing :
              \E k \in DOMAIN ast.decls : itemName(item) \in namesDeclared(ast.decls[k])

\* C3: in the returned tree every node has end >= start, and the span of a
\* node encloses the span of each of its child nodes.
SpansNest ==
    pc = "done" =>
        \A n \in {o \in objectsOf(ast) : isAstNodeLike(o)} :
            /\ n.end >= n.start
            /\ \A c \in childNodes(n) : n.start <= c.start /\ c.end <= n.end

\* C4: for every source and every option combination the returned
\* TranslationUnit has start = 0 and end = source.length.
TranslationUnitSpansSource ==
    pc = "done" =>
        /\ ast.type = "TranslationUnit"
        /\ ast.start = 0
        /\ ast.end = Len(source)

\* a call that returned after tokens were skipped and errors were recorded
ReturnedAfterErrors ==
    /\ pc = "done"
    /\ parser.errorCount > 0
    /\ Len(ast.decls) < Len(input.lines)
    /\ ast.end = Len(source)
    /\ Len(source) > 0

\* C5: after parse returns, every AST node of the tree has a loc field if
\* options.loc is true and none has one if it is false.
LocIffRequested ==
    pc = "done" => \A n \in astNodes(ast) : ("loc" \in DOMAIN n) <=> options.loc

\* the log entries of the declarations that begin with a visible typedef name
typedefLed == {e \in parser.log : e.op = "decl" /\ e.typedefName # ""}

scopesLeft == {e \in parser.log : e.op = "scope"}

\* C7: on exit from a function body, a compound statement or a for
\* statement the set of shadowed typedef names is the set it was on entry.
ShadowRestoredOnExit == \A e \in scopesLeft : e.exit = e.entry

\* a for statement whose init clause shadowed a typedef name was left, and a
\* declaration after it began with that name as a typedef name
ShadowedInsideFor ==
    /\ pc = "done"
    /\ \E e \in scopesLeft :
          /\ e.kind = "for"
          /\ e.inside # e.entry
          /\ \E d \in typedefLed : d.at > e.at /\ d.typedefName \in e.inside \ e.entry

\* The grammar of type names (C11 6.7.7) over the tokens i .. j - 1, counted
\* from 1, where names is the set of typedef names in scope.
wordAt(i, names) ==
    IF i > Len(tokens) THEN "Eof"
    ELSE IF tokens[i].kind # "Identifier" THEN tokens[i].kind
    ELSE IF tokens[i].value \in names THEN "TypedefName"
    ELSE "Identifier"

\* the keywords of the sources that are type specifiers
SpecifierKeywords == {"Int", "Void"}

\* a specifier list: type specifier keywords, or one typedef name (C11
\* 6.7.2p2: a typedef name stands alone, and an identifier after a type
\* specifier is not a typedef name).  Which multisets of keywords make a
\* type is a constraint, not syntax: the list is not checked for it.
IsSpecifierList(i, j, names) ==
    /\ i < j
    /\ \/ \A k \in i..(j - 1) : wordAt(k, names) \in SpecifierKeywords
       \/ j = i + 1 /\ wordAt(i, names) = "TypedefName"

IsPointer(i, j, names) == i < j /\ \A k \in i..(j - 1) : wordAt(k, names) = "Star"

RECURSIVE IsAbstractDeclarator(_, _, _)
RECURSIVE IsDirectAbstractDeclarator(_, _, _)
RECURSIVE IsDeclarator(_, _, _)
RECURSIVE IsDirectDeclarator(_, _, _)
RECURSIVE IsParameterList(_, _, _)

\* pointer, or an optional pointer and a direct abstract declarator
IsAbstractDeclarator(i, j, names) ==
    \/ IsPointer(i, j, names)
    \/ \E m \in i..(j - 1) :
          /\ m = i \/ IsPointer(i, m, names)
          /\ IsDirectAbstractDeclarator(m, j, names)

\* ( abstract-declarator ), or an optional direct abstract declarator and
\* ( parameter-type-list )
IsDirectAbstractDeclarator(i, j, names) ==
    /\ j - i >= 2
    /\ wordAt(j - 1, names) = "RParen"
    /\ \E o \in i..(j - 2) :
          /\ wordAt(o, names) = "LParen"
          /\ \/ o = i /\ IsAbstractDeclarator(o + 1, j - 1, names)
             \/ /\ o = i \/ IsDirectAbstractDeclarator(i, o, names)
                /\ IsParameterList(o + 1, j - 1, names)

\* an optional pointer and a direct declarator
IsDeclarator(i, j, names) ==
    \E m \in i..(j - 1) :
        /\ m = i \/ IsPointer(i, m, names)
        /\ IsDirectDeclarator(m, j, names)

\* identifier, ( declarator ), or a direct declarator and ( parameter-type-list )
IsDirectDeclarator(i, j, names) ==
    \/ j = i + 1 /\ wordAt(i, names) \in {"Identifier", "TypedefName"}
    \/ /\ j - i >= 3
       /\ wordAt(j - 1, names) = "RParen"
       /\ \E o \in i..(j - 2) :
             /\ wordAt(o, names) = "LParen"
             /\ \/ o = i /\ IsDeclarator(o + 1, j - 1, names)
                \/ /\ o > i
                   /\ IsDirectDeclarator(i, o, names)
                   /\ IsParameterList(o + 1, j - 1, names)

\* an empty list, or one parameter declaration (the sources have no comma
\* inside a type name)
IsParameterList(i, j, names) ==
    \/ i = j
    \/ \E m \in (i + 1)..j :
          /\ IsSpecifierList(i, m, names)
          /\ \/ m = j
             \/ IsAbstractDeclarator(m, j, names)
             \/ IsDeclarator(m, j, names)

\* specifier-qualifier-list abstract-declarator(opt)
IsTypeName(i, j, names) ==
    \E m \in (i + 1)..j :
        /\ IsSpecifierList(i, m, names)
        /\ m = j \/ IsAbstractDeclarator(m, j, names)

\* the tokens after the opening parenthesis at index at (counted from 0)
\* are a type name followed by a closing parenthesis
TypeNameInParens(at, names) ==
    \E j \in (at + 3)..Len(tokens) :
        IsTypeName(at + 2, j, names) /\ wordAt(j, names) = "RParen"

\* the log entries of the cast attempts
castAttempts == {e \in parser.log : e.op = "cast"}

\* the initializer expression of the first declarator of declaration k
initExpr(k) == ast.decls[k].declarators[1].init.expr

\* the source typedef int T; int x = ( ws ;
CastSource(ws) ==
    << <<"typedef", "int", "T", ";">>, <<"int", "x", "=", "(">> \o ws \o <<";">> >>

IsParameterOrIdentifierList(i, j, names) ==
    \/ IsParameterList(i, j, names)
    \/ j = i + 1 /\ wordAt(i, names) = "Identifier"

\* ( * .. * ) with at least one star, or ( * .. * G ) for such a group G
RECURSIVE IsPointerGroup(_, _, _)
IsPointerGroup(i, j, names) ==
    /\ j - i >= 3
    /\ wordAt(i, names) = "LParen"
    /\ wordAt(j - 1, names) = "RParen"
    /\ \E m \in (i + 1)..(j - 1) :
          /\ \A k \in (i + 1)..(m - 1) : wordAt(k, names) = "Star"
          /\ \/ m = j - 1 /\ m > i + 1
             \/ IsPointerGroup(m, j - 1, names)

\* ( * .. * G ( parameter-type-list ) ) for a pointer group G, or
\* ( * .. * F ) for such a group F
RECURSIVE IsFunctionPointerGroup(_, _, _)
IsFunctionPointerGroup(i, j, names) ==
    /\ j - i >= 7
    /\ wordAt(i, names) = "LParen"
    /\ wordAt(j - 1, names) = "RParen"
    /\ \E m \in (i + 1)..(j - 1) :
          /\ \A k \in (i + 1)..(m - 1) : wordAt(k, names) = "Star"
          /\ \/ IsFunctionPointerGroup(m, j - 1, names)
             \/ \E o \in (m + 3)..(j - 3) :
                   /\ IsPointerGroup(m, o, names)
                   /\ wordAt(o, names) = "LParen"
                   /\ wordAt(j - 2, names) = "RParen"
                   /\ IsParameterOrIdentifierList(o + 1, j - 2, names)

\* stars, then optionally a group, then optionally a parameter list
IsPointerDeclarator(i, j, names) ==
    \E m \in i..j :
        /\ \A k \in i..(m - 1) : wordAt(k, names) = "Star"
        /\ \/ m = j
           \/ \E o \in (m + 3)..j :
                 /\ IsPointerGroup(m, o, names) \/ IsFunctionPointerGroup(m, o, names)
                 /\ \/ o = j
                    \/ /\ j - o >= 2
                       /\ wordAt(o, names) = "LParen"
                       /\ wordAt(j - 1, names) = "RParen"
                       /\ IsParameterOrIdentifierList(o + 1, j - 1, names)

\* the tokens after the opening parenthesis at index at (counted from 0)
\* are a specifier list, such an abstract declarator and a closing
\* parenthesis
PointerTypeNameInParens(at, names) ==
    \E j \in (at + 3)..Len(tokens) :
        /\ wordAt(j, names) = "RParen"
        /\ \E m \in (at + 3)..j :
              IsSpecifierList(at + 2, m, names) /\ IsPointerDeclarator(m, j, names)

LevelOf(op) ==
    CASE op \in {"*", "/", "%"} -> 10
      [] op \in {"+", "-"} -> 9
      [] op \in {"<<", ">>"} -> 8
      [] op \in {"<", "<=", ">", ">="} -> 7
      [] op \in {"==", "!="} -> 6
      [] op = "&" -> 5
      [] op = "^" -> 4
      [] op = "|" -> 3
      [] op = "&&" -> 2
      [] op = "||" -> 1

\* the BinOp of the AST for a binary operator
BinOpOf(op) ==
    CASE op = "*" -> "Mul" [] op = "/" -> "Div" [] op = "%" -> "Mod"
      [] op = "+" -> "Add" [] op = "-" -> "Sub"
      [] op = "<<" -> "Shl" [] op = ">>" -> "Shr"
      [] op = "<" -> "Lt" [] op = "<=" -> "Le" [] op = ">" -> "Gt" [] op = ">=" -> "Ge"
      [] op = "==" -> "Eq" [] op = "!=" -> "Ne"
      [] op = "&" -> "BitAnd" [] op = "^" -> "BitXor" [] op = "|" -> "BitOr"
      [] op = "&&" -> "LogicalAnd" [] op = "||" -> "LogicalOr"

\* e is the literal v
IsLiteral(e, v) == e.type = "IntLiteral" /\ e.value = v

\* e is BinaryExpression(op, left, right) for operands described by L and R
IsBinary(e, op, L(_), R(_)) ==
    /\ e.type = "BinaryExpression"
    /\ e.operator = BinOpOf(op)
    /\ L(e.left)
    /\ R(e.right)

\* the two operators of the source int x = 1 op1 2 op2 3 ;
op1 == input.lines[1][5]
op2 == input.lines[1][7]

\* C9: when op2 belongs to a tighter level than op1, 1 op1 2 op2 3 parses as
\* BinaryExpression(op1, 1, BinaryExpression(op2, 2, 3)).
TighterBindsFirst ==
    (pc = "done" /\ input.family = "binary" /\ LevelOf(op2) > LevelOf(op1)) =>
        IsBinary(initExpr(1), op1,
                 LAMBDA l : IsLiteral(l, 1),
                 LAMBDA r : IsBinary(r, op2, LAMBDA a : IsLiteral(a, 2),
                                             LAMBDA b : IsLiteral(b, 3)))

\* 1 + 2 * 3 was parsed as Add(1, Mul(2, 3))
AddOfMulParsed ==
    /\ pc = "done"
    /\ input.family = "binary"
    /\ op1 = "+" /\ op2 = "*"
    /\ initExpr(1).operator = "Add"
    /\ initExpr(1).right.operator = "Mul"

\* C10: when op1 and op2 belong to the same level, 1 op1 2 op2 3 parses as
\* BinaryExpression(op2, BinaryExpression(op1, 1, 2), 3).
SameLevelNestsLeft ==
    (pc = "done" /\ input.family = "binary" /\ LevelOf(op2) = LevelOf(op1)) =>
        IsBinary(initExpr(1), op2,
                 LAMBDA l : IsBinary(l, op1, LAMBDA a : IsLiteral(a, 1),
                                             LAMBDA b : IsLiteral(b, 2)),
                 LAMBDA r : IsLiteral(r, 3))

\* 1 - 2 - 3 was parsed as Sub(Sub(1, 2), 3)
SubOfSubParsed ==
    /\ pc = "done"
    /\ input.family = "binary"
    /\ op1 = "-" /\ op2 = "-"
    /\ initExpr(1).operator = "Sub"
    /\ initExpr(1).left.operator = "Sub"

\* the number of parameters written in the function pointer declaration
\* of the source: one more than its commas, none between ( )
paramsWritten ==
    IF input.lines[1][7] = ")" THEN 0
    ELSE 1 + Cardinality({i \in DOMAIN input.lines[1] : input.lines[1][i] = ","})

\* the FunctionPointer entries of a derived-declarator list
functionPointers(derived) ==
    {i \in DOMAIN derived : derived[i].kind = "FunctionPointer"}

\* C11: int (*x)(P1, .., Pn); yields one declaration with exactly one
\* declarator, named x, whose derived list holds a FunctionPointer entry
\* with exactly n parameters.
FunctionPointerCarriesParams ==
    (pc = "done" /\ input.family = "fptr") =>
        /\ Len(ast.decls) = 1
        /\ ast.decls[1].type = "Declaration"
        /\ Len(ast.decls[1].declarators) = 1
        /\ ast.decls[1].declarators[1].name = "x"
        /\ Cardinality(functionPointers(ast.decls[1].declarators[1].derived)) = 1
        /\ \A i \in functionPointers(ast.decls[1].declarators[1].derived) :
              Len(ast.decls[1].declarators[1].derived[i].params) = paramsWritten

\* int (*x)(int, int *); was parsed: a function pointer of two parameters
TwoParameterFunctionPointer ==
    /\ pc = "done"
    /\ input.lines = << <<"int", "(", "*", "x", ")", "(", "int", ",", "int", "*", ")", ";">> >>
    /\ \E i \in functionPointers(ast.decls[1].declarators[1].derived) :
          Len(ast.decls[1].declarators[1].derived[i].params) = 2

\* the number that a word of the sources spells
numberOf(w) == CASE w = "1" -> 1 [] w = "2" -> 2 [] w = "3" -> 3 [] w = "10" -> 10
                 [] w = "16" -> 16

\* the enum constants of the C language for the variants written from word
\* i of the line ws on, where next is the value of a variant without one
RECURSIVE enumValuesFrom(_, _, _, _)
enumValuesFrom(ws, i, next, m) ==
    IF ws[i] = "}" THEN m
    ELSE IF ws[i] = "," THEN enumValuesFrom(ws, i + 1, next, m)
    ELSE IF ws[i + 1] = "="
    THEN enumValuesFrom(ws, i + 3, numberOf(ws[i + 2]) + 1,
                        mapSet(m, ws[i], numberOf(ws[i + 2])))
    ELSE enumValuesFrom(ws, i + 1, next + 1, mapSet(m, ws[i], next))

\* C12: after an enum body is parsed, the enum-constant table holds every
\* variant: one without a value with the value of the previous variant plus
\* one (0 for the first), one with a value with that value; enum { A = 10,
\* B, C = 1, D }; registers A = 10, B = 11, C = 1, D = 2.
EnumConstantsCounted ==
    (pc = "done" /\ input.family = "enum") =>
        parser.enumConstants = enumValuesFrom(input.lines[1], 3, 0, [n \in {} |-> 0])

\* the part of it about variants that have no value before them in the body
EnumConstantsCountedFromZero ==
    (pc = "done" /\ input.family = "enum") =>
        \A i \in 1..4 :
            (/\ VariantNames[i] \in DOMAIN enumValuesFrom(input.lines[1], 3, 0, [n \in {} |-> 0])
             /\ \A k \in DOMAIN input.lines[1] :
                   (input.lines[1][k] = "=") =>
                       \E j \in 1..4 : j > i /\ input.lines[1][k - 1] = VariantNames[j])
            => /\ VariantNames[i] \in DOMAIN parser.enumConstants
               /\ parser.enumConstants[VariantNames[i]] = i - 1

\* C13: a call of parse with the source and the options of the first call
\* returns the tree that the first call returned, and leaves a parser in
\* the state the parser of the first call was left in (typedef set,
\* shadowed set, enum table, attribute register, error count), whatever
\* was parsed in between.
SameCallSameTree ==
    (pc = "done" /\ calls > 0 /\ input = firstCall.input /\ options = firstCall.options) =>
        /\ ast = firstCall.ast
        /\ parser = firstCall.parser

\* T x; was parsed, then typedef int T;, then T x; again
RepeatedAfterTypedef ==
    /\ pc = "done"
    /\ calls = 2
    /\ input.lines = <<TypedefUse>>
    /\ firstCall.input.lines = <<TypedefUse>>
    /\ firstCall.options = options
    /\ "T" \notin parser.typedefs

\* C14: the token list that scan returns for a source of length len holds
\* exactly one Eof token, the last one, with start = len and end = len.
ScanEndsWithOneEof ==
    pc # "start" =>
        /\ Len(tokens) >= 1
        /\ tokens[Len(tokens)].kind = "Eof"
        /\ tokens[Len(tokens)].start = Len(source)
        /\ tokens[Len(tokens)].end = Len(source)
        /\ \A i \in 1..(Len(tokens) - 1) : tokens[i].kind # "Eof"

\* a source was scanned that ends inside a string literal, after the
\* backslash of an escape
ScannedOpenString ==
    /\ pc = "loop"
    /\ input.family = "chars"
    /\ input.chars = <<"a", "\"", "\\">>
    /\ Len(tokens) = 3
    /\ tokens[2].kind = "StringLiteral"
    /\ tokens[2].end = 3
\* the token that starts at the GNU spelling of the source
spelled == tokens[1]

\* C15: with gnuExtensions disabled, typeof and asm are lexed as Identifier
\* tokens; __typeof__ and __asm__ are lexed as the Typeof and Asm keyword
\* tokens whether gnuExtensions is enabled or disabled.
BareSpellingsAreIdentifiers ==
    (pc # "start" /\ input.family = "keyword") =>
        /\ spelled.start = input.lead
        /\ spelled.end = input.lead + Len(GnuSpellings[input.word])
        /\ (input.word \in {"typeof", "asm"} /\ ~options.gnuExtensions) =>
               (spelled.kind = "Identifier" /\ spelled.value = input.word)
        /\ (input.word = "__typeof__") => spelled.kind = "Typeof"
        /\ (input.word = "__asm__") => spelled.kind = "Asm"

\* typeof was scanned with gnuExtensions disabled
TypeofScannedWithoutGnu ==
    /\ pc = "loop"
    /\ input.family = "keyword"
    /\ input.word = "typeof"
    /\ ~options.gnuExtensions
    /\ tokens[1].kind = "Identifier"
    /\ tokens[1].value = "typeof"
\* the offset of the first character of line i of the source
lineStart(i) == Len(render(SubSeq(input.lines, 1, i - 1)))

\* the offset after the last word of line i, which the newline follows
lineEnd(i) == lineStart(i) + Len(renderLine(input.lines[i])) - 1

\* C16: every top-level Declaration node spans from the first token of its
\* declaration to the offset after its terminating semicolon; a static
\* assertion is spanned as a whole, semicolon included.
DeclarationSpansItsLine ==
    (pc = "done" /\ input.family = "span") =>
        \A k \in DOMAIN ast.decls :
            (ast.decls[k].type = "Declaration") =>
                \E i \in DOMAIN input.lines :
                    /\ ast.decls[k].start = lineStart(i)
                    /\ ast.decls[k].end = lineEnd(i)

\* the same for the sources without an asm directive
DeclarationSpansItsLineNoAsm ==
    (pc = "done" /\ input.family = "span"
        /\ \A i \in DOMAIN input.lines : input.lines[i][1] # "__asm__") =>
        /\ Len(ast.decls) = Len(input.lines)
        /\ \A i \in DOMAIN input.lines :
              /\ ast.decls[i].type = "Declaration"
              /\ ast.decls[i].start = lineStart(i)
              /\ ast.decls[i].end = lineEnd(i)
\* the offsets of the newline characters before the offset o, as 1-based
\* indices of the source
newlinesBefore(o) == {i \in 1..o : source[i] = "\n"}

\* the offset of the first character of the line that holds the offset o
lineStartOf(o) ==
    IF newlinesBefore(o) = {} THEN 0
    ELSE CHOOSE i \in newlinesBefore(o) : \A j \in newlinesBefore(o) : j <= i

\* line and column of the offset o counted from the source
manualPosition(o) ==
    [line |-> 1 + Cardinality(newlinesBefore(o)), column |-> o - lineStartOf(o)]

\* C17: with loc: true, the loc of every node that has offsets is the line
\* and column of its start and of its end: the line is 1 + the number of
\* newline characters before the offset, the column is the offset minus the
\* offset of the first character of that line.
LocMatchesManualPosition ==
    (pc = "done" /\ options.revision = "loc" /\ options.loc) =>
        \A n \in astNodes(ast) :
            isAstNodeLike(n) =>
                /\ "loc" \in DOMAIN n
                /\ n.loc.start = manualPosition(n.start)
                /\ n.loc.end = manualPosition(n.end)

\* a tree was returned with a node that starts on the second line after
\* the first column and ends on the same line
LocOnSecondLine ==
    /\ pc = "done"
    /\ options.revision = "loc"
    /\ options.loc
    /\ \E n \in astNodes(ast) :
          /\ isAstNodeLike(n)
          /\ n.loc.start.line = 2
          /\ n.loc.start.column > 0
          /\ n.loc.end.line = 2
          /\ n.loc.end.column > n.loc.start.column
\* the parameters of the prototype of a source of ParamInputs
prototypeParams == ast.decls[2].declarators[1].derived[1].params

\* the type that the specifier words sp of a parameter denote
writtenType(sp) ==
    IF sp[Len(sp)] = "*" THEN "PointerType"
    ELSE IF sp[1] = "int" THEN "IntType" ELSE "TypedefNameType"

\* the type specifier ts is the one written by the words sp
isWrittenType(ts, sp) ==
    LET base == IF sp[Len(sp)] = "*" THEN ts.base ELSE ts
    IN  /\ ts.type = writtenType(sp)
        /\ base.type = (IF sp[1] = "int" THEN "IntType" ELSE "TypedefNameType")
        /\ (sp[1] # "int") => base.name = sp[1]

\* C18: in a parameter list, a parameter whose name is an identifier that
\* is a typedef name at that point is an ordinary named parameter of the
\* type written before it; the name is not taken as a type specifier.
TypedefNamedParameter ==
    (pc = "done" /\ input.family = "param") =>
        /\ parser.errorCount = 0
        /\ Len(ast.decls) = 2
        /\ ast.decls[2].type = "Declaration"
        /\ Len(ast.decls[2].declarators) = 1
        /\ ast.decls[2].declarators[1].name = "p"
        /\ Len(ast.decls[2].declarators[1].derived) = 1
        /\ ast.decls[2].declarators[1].derived[1].kind = "Function"
        /\ Len(prototypeParams) = input.leading + 1
        /\ prototypeParams[input.leading + 1].name = input.name
        /\ isWrittenType(prototypeParams[input.leading + 1].typeSpec, input.spec)

\* void p(int x, T *size_t); was parsed after typedef int T;
ParameterNamedSizeT ==
    /\ pc = "done"
    /\ input.family = "param"
    /\ input.name = "size_t"
    /\ input.spec = <<"T", "*">>
    /\ input.leading = 1
    /\ "size_t" \in parser.typedefs \ parser.shadowedTypedefs
    /\ prototypeParams[2].name = "size_t"
    /\ prototypeParams[2].typeSpec.base.name = "T"
\* the speculative type parses that were given up
backtracks == {e \in parser.log : e.op = "backtrack"}

\* C19: when the speculative type parse of parseCastExpr or of
\* parseSizeofExpr does not reach a closing parenthesis and backtracks, the
\* cursor and the whole attribute-flag register have the value they had
\* before the attempt.
BacktrackRestoresState ==
    \A e \in backtracks : e.posAfter = e.posBefore /\ e.flagsAfter = e.flagsBefore

\* what the backtrack does put back: the cursor, and the typedef and const
\* flags
BacktrackRestoresCursorAndTwoFlags ==
    \A e \in backtracks :
        /\ e.posAfter = e.posBefore
        /\ (e.flagsAfter \div ATTR_TYPEDEF) % 2 = (e.flagsBefore \div ATTR_TYPEDEF) % 2
        /\ (e.flagsAfter \div ATTR_CONST) % 2 = (e.flagsBefore \div ATTR_CONST) % 2
\* the compound statements that were left, and the entries into them
blocksLeft == {e \in parser.log : e.op = "scope" /\ e.kind = "compound"}

blocksEntered == {e \in parser.log : e.op = "enter"}

\* C20: a typedef name registered by a declaration inside a compound
\* statement is a typedef name only until that statement exits: after the
\* block closes, the typedef name set equals its value at block entry.
TypedefsRestoredOnExit ==
    \A e \in blocksLeft : \A n \in blocksEntered :
        (n.at = e.at) => e.typedefsAtExit = n.typedefs

\* the typedef name set never loses a name in a block
TypedefsGrowInBlocks ==
    \A e \in blocksLeft : \A n \in blocksEntered :
        (n.at = e.at) => n.typedefs \subseteq e.typedefsAtExit
\* the exits from compound statements
blockExits == {e \in parser.log : e.op = "leave"}

\* C21: on every exit from parseCompoundStmt, also from a body with syntax
\* errors or one that reaches the end of input without a closing brace, the
\* attribute-flag register equals its value at block entry.
FlagsRestoredOnBlockExit ==
    \A e \in blockExits : \A n \in blocksEntered :
        (n.at = e.at) => e.flagsAtExit = n.flags

\* a body in which the static flag was left set and which reached the end
\* of input without a closing brace was left with the register of its entry
UnclosedBlockLeftWithFlags ==
    /\ pc = "done"
    /\ input.family = "flags"
    /\ input.lines[1] = <<"int", "g", "(", ")", "{", "(", "static", "1", ")", ";">>
    /\ parser.errorCount > 0
    /\ \E e \in blockExits : \E n \in blocksEntered :
          /\ n.at = e.at
          /\ e.flagsInside # n.flags
          /\ e.flagsAtExit = n.flags

\* the iterations of the parameter loop of parseParamList
paramsRead == {e \in parser.log : e.op = "param"}

\* the noreturn flag after a parameter is the flag before it
NoreturnRestoredAfterParameter ==
    \A e \in paramsRead : e.noreturnAfter = e.noreturnBefore

\* the declarations of p in the tree
declarationsOfP ==
    {ast.decls[i] : i \in {j \in DOMAIN ast.decls :
        /\ ast.decls[j].type = "Declaration"
        /\ \E k \in DOMAIN ast.decls[j].declarators :
               ast.decls[j].declarators[k].name = "p"}}

\* C22: after parseParamList has parsed a parameter the noreturn flag has
\* the value it had before that parameter, and a noreturn mark on a function
\* pointer parameter never makes the enclosing declaration noreturn.
NoreturnStaysInParameter ==
    /\ NoreturnRestoredAfterParameter
    /\ (pc = "done" /\ input.family = "noreturn" /\ ~input.outer) =>
           \A d \in declarationsOfP : \A k \in DOMAIN d.declarators :
               ~d.declarators[k].attrs.isNoreturn

\* a parameter marked _Noreturn was read with the flag set and left with
\* the flag cleared
NoreturnParameterRead ==
    /\ pc = "done"
    /\ input.family = "noreturn"
    /\ \E e \in paramsRead : e.noreturnInside /\ ~e.noreturnBefore /\ ~e.noreturnAfter

\* the enum-constant table m and the unevaluable set u that the variants
\* written from word i of the line ws on are to be given, where the literal
\* values of the sources can be evaluated and the identifier x cannot; next
\* is the value of a variant without one, or NoValue after an unevaluable one
RECURSIVE chainFrom(_, _, _, _, _)
chainFrom(ws, i, next, m, u) ==
    IF ws[i] = "}" THEN [m |-> m, u |-> u]
    ELSE IF ws[i] = "," THEN chainFrom(ws, i + 1, next, m, u)
    ELSE IF ws[i + 1] = "=" /\ ws[i + 2] = "x"
    THEN chainFrom(ws, i + 3, NoValue, m, u \cup {ws[i]})
    ELSE IF ws[i + 1] = "="
    THEN chainFrom(ws, i + 3, <<numberOf(ws[i + 2]) + 1>>,
                   mapSet(m, ws[i], numberOf(ws[i + 2])), u)
    ELSE IF next = NoValue THEN chainFrom(ws, i + 1, NoValue, m, u \cup {ws[i]})
    ELSE chainFrom(ws, i + 1, <<next[1] + 1>>, mapSet(m, ws[i], next[1]), u)

\* the variant names from word i of ws on that follow an unevaluable value
\* with no explicit value between; broken tells whether word i does
RECURSIVE afterUnevaluable(_, _, _)
afterUnevaluable(ws, i, broken) ==
    IF ws[i] = "}" THEN {}
    ELSE IF ws[i] = "," THEN afterUnevaluable(ws, i + 1, broken)
    ELSE IF ws[i + 1] = "=" /\ ws[i + 2] = "x"
    THEN {ws[i]} \cup afterUnevaluable(ws, i + 3, TRUE)
    ELSE IF ws[i + 1] = "=" THEN afterUnevaluable(ws, i + 3, FALSE)
    ELSE (IF broken THEN {ws[i]} ELSE {}) \cup afterUnevaluable(ws, i + 1, broken)

\* C23: a variant whose explicit value cannot be evaluated is recorded as
\* unevaluable, and so is every variant without a value after it, none of
\* them with an entry in the enum-constant table, until a variant with an
\* explicit value that can be evaluated restarts the counter.
UnevaluableUntilRestart ==
    (pc = "done" /\ input.family = "chain") =>
        /\ parser.enumConstants = chainFrom(input.lines[1], 3, <<0>>, [n \in {} |-> 0], {}).m
        /\ parser.unevaluableEnumConstants = chainFrom(input.lines[1], 3, <<0>>, [n \in {} |-> 0], {}).u

\* the part of it before the restart: the variant with the unevaluable value
\* and the variants without a value after it
UnevaluableChain ==
    (pc = "done" /\ input.family = "chain") =>
        \A n \in afterUnevaluable(input.lines[1], 3, FALSE) :
            /\ n \in parser.unevaluableEnumConstants
            /\ n \notin DOMAIN parser.enumConstants

\* enum { A = x, B, C = 1, D }; was parsed, and A and B are unevaluable
ChainParsed ==
    /\ pc = "done"
    /\ input.family = "chain"
    /\ input.lines[1] = <<"enum", "{">> \o variantList(ChainExample, 1) \o <<"}", ";">>
    /\ {"A", "B"} \subseteq parser.unevaluableEnumConstants

\* the static assertions of the source whose condition is zero
zeroConditions == {i \in DOMAIN input.conds : input.conds[i].zero}

\* C24: parsing a _Static_assert counts an error if and only if its
\* condition evaluates to exactly zero; a condition with another value, or
\* one that cannot be evaluated, counts none.
ZeroConditionIsTheError ==
    (pc = "done" /\ input.family = "assert") =>
        parser.errorCount = Cardinality(zeroConditions)

\* _Static_assert(B - 1); and _Static_assert(x - x); were parsed after
\* enum { A, B }; with one error
ZeroAndUnevaluableAsserted ==
    /\ pc = "done"
    /\ input.family = "assert"
    /\ Len(input.conds) = 2
    /\ input.conds[1].words = <<"B", "-", "1">>
    /\ input.conds[2].words = <<"x", "-", "x">>
    /\ parser.errorCount = 1
    /\ parser.enumConstants["B"] = 1

\* the struct and union type nodes of the tree
aggregates == {n \in objectsOf(ast) : "type" \in DOMAIN n /\ n.type \in {"StructType", "UnionType"}}

\* C25: while a #pragma pack alignment value is active, every struct or
\* union parsed has that value recorded as its maxFieldAlign.
ActivePackIsMaxFieldAlign ==
    (pc = "done" /\ input.family = "pack" /\ input.active # <<>>) =>
        \A n \in aggregates : n.maxFieldAlign = input.active

\* every struct or union has the maxFieldAlign of a parser that saw no pragma
MaxFieldAlignIsNull ==
    (pc = "done" /\ input.family = "pack") =>
        \A n \in aggregates : n.maxFieldAlign = <<>>

\* a struct was parsed after a pack directive with the value 2
PackedStructParsed ==
    /\ pc = "done"
    /\ input.family = "pack"
    /\ input.active = <<2>>
    /\ parser.errorCount = 0
    /\ \E i \in DOMAIN tokens : tokens[i].kind = "PragmaPackSet" /\ tokens[i].num = 2
    /\ \E n \in aggregates : n.type = "StructType" /\ "fields" \in DOMAIN n

-----------------------------------------------------------------------------
(* Suffixed integer literals                                               *)

\* a scanned literal with a suffix and no imaginary suffix
suffixedLiteralScanned ==
    /\ pc # "start"
    /\ input.family = "number"
    /\ input.suffix # ""
    /\ ~input.imaginary

\* the kind that a suffix names
kindOfSuffix(suffix) ==
    CASE suffix = "u" -> "UIntLiteral"
      [] suffix = "l" -> "LongLiteral"
      [] suffix = "ul" -> "ULongLiteral"
      [] suffix = "ll" -> "LongLongLiteral"
      [] suffix = "ull" -> "ULongLongLiteral"

\* C26: a suffixed integer literal has the token kind that its suffix names,
\* whatever its value and its radix
SuffixNamesKind ==
    suffixedLiteralScanned => tokens[1].kind = kindOfSuffix(input.suffix)

\* the kind of a suffixed literal by the suffix, the value and the radix: u
\* above U32_MAX is unsigned long, and l or ll above I64_MAX, which only a
\* literal that is not decimal can be, is the unsigned kind
kindOfLiteral(suffix, radix, above) ==
    CASE suffix = "u" -> IF above >= 2 THEN "ULongLiteral" ELSE "UIntLiteral"
      [] suffix = "l" -> IF radix # 10 /\ above = 3 THEN "ULongLiteral" ELSE "LongLiteral"
      [] suffix = "ul" -> "ULongLiteral"
      [] suffix = "ll" ->
            IF radix # 10 /\ above = 3 THEN "ULongLongLiteral" ELSE "LongLongLiteral"
      [] suffix = "ull" -> "ULongLongLiteral"

\* C26, amended: the suffix is consumed whole, and it names the kind unless
\* the value is too large for it
SuffixAndValueNameKind ==
    suffixedLiteralScanned =>
        /\ tokens[1].start = 0
        /\ tokens[1].end = input.length
        /\ tokens[1].kind = kindOfLiteral(input.suffix, input.radix, input.above)

\* 4294967296u and its like have been scanned
LargeUnsignedScanned ==
    /\ suffixedLiteralScanned
    /\ input.suffix = "u"
    /\ input.above >= 2
    /\ tokens[1].kind = "ULongLiteral"

-----------------------------------------------------------------------------
(* Universal character names                                               *)

\* a scanned literal that opens with a universal character name
escapeScanned == pc # "start" /\ input.family = "escape"

\* the digits that the name is to have, and those that the scanner took
digitsOfName == IF input.letter = "u" THEN 4 ELSE 8

digitsTaken == lexEscapeChar(source, 2).pos - 3

\* the literal of a scanned name is a token that holds its character
nameAccepted ==
    /\ tokens[1].kind \in {"StringLiteral", "CharLiteral", "IntLiteral"}
    /\ tokens[1].start = 0
    /\ tokens[1].end >= 3 + digitsTaken

\* C27: a universal character name takes exactly 4 hex digits after \u and
\* exactly 8 after \U: never more, and one with fewer is not accepted
NameTakesExactlyItsDigits ==
    escapeScanned /\ nameAccepted => digitsTaken = digitsOfName

\* the name takes the hex digits that are there, up to 4 or 8 of them
NameTakesAtMostItsDigits ==
    escapeScanned =>
        /\ nameAccepted
        /\ digitsTaken = (IF input.digits < digitsOfName THEN input.digits
                          ELSE digitsOfName)

\* a name with too few digits has been scanned into a literal
ShortNameScanned ==
    /\ escapeScanned
    /\ nameAccepted
    /\ input.digits > 0
    /\ input.digits < digitsOfName

-----------------------------------------------------------------------------
(* Range designators                                                       *)

\* the items of the initializer list of the declaration of a
listItems == decls[Len(decls)].declarators[1].init.items

rangeListParsed ==
    /\ pc = "done"
    /\ input.family = "range"
    /\ parser.errorCount = 0

\* the first range of the item it has bounds with values
rangeExpands(it) ==
    /\ it.rangePos > 0
    /\ it.lo # <<>>
    /\ it.hi # <<>>
    /\ it.needsEnum => input.enum

entriesOf(it) ==
    IF ~rangeExpands(it) THEN 1
    ELSE IF it.hi[1] >= it.lo[1] THEN it.hi[1] - it.lo[1] + 1
    ELSE 0

\* entry is the k-th entry for the item it, and first the first one
entryOf(entry, first, it, k) ==
    /\ Len(entry.designators) = Len(it.kinds)
    /\ entry.init = first.init
    /\ entry.init.kind = it.init
    /\ \A j \in DOMAIN it.kinds :
          IF rangeExpands(it) /\ j = it.rangePos
          THEN entry.designators[j] = IndexDesignator(rangeIndex(it.lo[1] + k - 1))
          ELSE entry.designators[j].kind = it.kinds[j]

\* out is, item by item, the entries of the items its
RECURSIVE entriesMatch(_, _)
entriesMatch(out, its) ==
    IF its = <<>> THEN out = <<>>
    ELSE /\ Len(out) >= entriesOf(Head(its))
         /\ \A k \in 1..entriesOf(Head(its)) : entryOf(out[k], out[1], Head(its), k)
         /\ entriesMatch(SubSeq(out, entriesOf(Head(its)) + 1, Len(out)), Tail(its))

\* a range designator whose bounds have values
rangeWithValues(d) ==
    /\ d.kind = "Range"
    /\ evalConstIntExprOfModule(d.low, parser.enumConstants) # NoValue
    /\ evalConstIntExprOfModule(d.high, parser.enumConstants) # NoValue

\* C28: a range designator whose bounds both have a value at parse time is
\* replaced by one entry for each index from lo to hi, with the same
\* initializer; an item with a bound without a value is kept as one entry
\* with its range
RangesWithValuesAreExpanded ==
    rangeListParsed =>
        /\ entriesMatch(listItems, input.items)
        /\ \A i \in DOMAIN listItems : \A j \in DOMAIN listItems[i].designators :
              ~rangeWithValues(listItems[i].designators[j])

\* C28, amended: the first range designator of an item is the one that is
\* replaced, when both of its bounds have a value; the item is kept as it is
\* otherwise, and so is every later range of an item
FirstRangeIsExpanded ==
    rangeListParsed => entriesMatch(listItems, input.items)

\* [0 ... 2] = 5 has been parsed into three entries
RangeExpanded ==
    /\ rangeListParsed
    /\ Len(input.items) = 1
    /\ input.items[1].words = <<"[", "0", "...", "2", "]", "=", "5">>
    /\ Len(listItems) = 3
    /\ listItems[3].designators = <<IndexDesignator(rangeIndex(2))>>

-----------------------------------------------------------------------------
(* The playground shows the newest response                                *)

\* the ids of the messages of a queue
idsOf(queue) == [k \in DOMAIN queue |-> queue[k].id]

\* the ids of a queue grow and are ids that have been issued
growing(ids) ==
    /\ \A k \in DOMAIN ids : ids[k] >= 1 /\ ids[k] <= idRef
    /\ \A j, k \in DOMAIN ids : j < k => ids[j] < ids[k]

\* C29: the ids of the requests grow with each request, a response is put
\* into the displayed state only when its id is the id of the newest
\* request, and so the response of an older request never takes the place
\* of that of a newer one
NewestResponseIsShown ==
    /\ [](growing(idsOf(toWorker)) /\ growing(idsOf(toPage)) /\ shown <= idRef)
    /\ [][/\ idRef' >= idRef
          /\ toWorker' # toWorker /\ Len(toWorker') > Len(toWorker) => idRef' > idRef
          /\ state' # state => shown' # shown
          /\ shown' # shown => /\ shown' = idRef
                               /\ shown' > shown
                               /\ toPage # <<>>
                               /\ shown' = Head(toPage).id
                               /\ state' = stateOf(Head(toPage))]_vars

\* the response of an older request has been dropped and that of the newest
\* one is shown
StaleResponseDropped ==
    /\ discarded # {}
    /\ shown = idRef
    /\ \A id \in discarded : id < shown
    /\ state.ast # null

-----------------------------------------------------------------------------
(* Speculation and the error count                                         *)

\* a source that is valid under the fallback interpretation has been parsed
fallbackParsed == input.family = "fallback" /\ pc = "done"

\* the attempts of who that were given up
backtracksOf(who) == {e \in backtracks : e.who = who}

\* C30: a speculative parse attempt that is abandoned by backtracking (the
\* type-first attempt of typeof, the cast attempt, the sizeof-type attempt)
\* leaves the error count unchanged: a source that is valid under the
\* fallback interpretation finishes parsing with the error count it had
\* before the attempt, which is zero.
AbandonedAttemptKeepsErrorCount ==
    fallbackParsed =>
        /\ \A e \in backtracks : e.errorsAfter = e.errorsBefore
        /\ parser.errorCount = 0

\* the cast attempt and the sizeof-type attempt do keep the count
CastAndSizeofKeepErrorCount ==
    fallbackParsed =>
        /\ \A e \in backtracksOf("cast") \cup backtracksOf("sizeof") :
                e.errorsAfter = e.errorsBefore
        /\ (backtracksOf("typeof") = {}) => parser.errorCount = 0

\* every abandoned type-first attempt of typeof counts one error
TypeofBacktrackCountsAnError ==
    \A e \in backtracksOf("typeof") : e.errorsAfter = e.errorsBefore + 1

\* a sizeof-type attempt that began with T, which the parser takes for a
\* type name, was given up in a source that is valid under the fallback
\* interpretation
FallbackAbandoned ==
    /\ fallbackParsed
    /\ input.words = <<"T", "+", "1">>
    /\ \E e \in backtracksOf("sizeof") :
           /\ tokens[e.posBefore + 2].value = "T"
           /\ \E i \in 1..e.posBefore : tokens[i].kind = "Enum"

\* a type-first attempt of typeof was given up in such a source
TypeofAbandoned == fallbackParsed /\ backtracksOf("typeof") # {}

=============================================================================
